---- MODULE Spec2Model ----
(***************************************************************************)
(* Model of the govcon description pipeline: the on-demand description     *)
(* handler (HandleGetDescription), the description store, the advisory     *)
(* locks, the change-detecting ingestion service and the batch jobs.       *)
(*                                                                         *)
(* Text is a sequence of one-character strings, so that the text functions *)
(* of internal/services (unwrap, fetch classification, the two normalizer  *)
(* tiers) are computed character by character as the Go code computes them.*)
(***************************************************************************)
EXTENDS Integers, Sequences, FiniteSets, TLC

(***************************************************************************)
(* Go strings package, on sequences of characters.                         *)
(***************************************************************************)

\* unicode.IsSpace on the characters the model uses (strings.TrimSpace).
IsSpace(c) == c \in {" ", "\t", "\n", "\r", "\f", "U000b", "U0085", "U00a0"}

RECURSIVE TrimLeftSet(_, _)
TrimLeftSet(s, cut) ==
    IF s # <<>> /\ Head(s) \in cut THEN TrimLeftSet(Tail(s), cut) ELSE s

RECURSIVE TrimRightSet(_, _)
TrimRightSet(s, cut) ==
    IF s # <<>> /\ s[Len(s)] \in cut
    THEN TrimRightSet(SubSeq(s, 1, Len(s) - 1), cut)
    ELSE s

SpaceChars == {c \in {" ", "\t", "\n", "\r", "\f", "U000b", "U0085", "U00a0"} : IsSpace(c)}

TrimSpace(s) == TrimRightSet(TrimLeftSet(s, SpaceChars), SpaceChars)

HasPrefix(s, p) == Len(s) >= Len(p) /\ SubSeq(s, 1, Len(p)) = p

HasPrefixAt(s, i, p) ==
    i >= 1 /\ i + Len(p) - 1 <= Len(s) /\ SubSeq(s, i, i + Len(p) - 1) = p

Contains(s, sub) == \E i \in 1..(Len(s) + 1) : HasPrefixAt(s, i, sub)

\* The state of a loop that reads a string body: i is the next index to
\* read, acc the characters decoded so far, r the result once done.
ReadFrom(i, acc, r) == [i |-> i, acc |-> acc, done |-> FALSE, r |-> r]
ReadOn(st, i, c) == [st EXCEPT !.i = i, !.acc = Append(st.acc, c)]
ReadEnd(st, r) == [st EXCEPT !.done = TRUE, !.r = r]

UpperLetters ==
    <<"A","B","C","D","E","F","G","H","I","J","K","L","M",
      "N","O","P","Q","R","S","T","U","V","W","X","Y","Z">>

LowerLetters ==
    <<"a","b","c","d","e","f","g","h","i","j","k","l","m",
      "n","o","p","q","r","s","t","u","v","w","x","y","z">>

LowerChar(c) ==
    IF \E k \in 1..26 : UpperLetters[k] = c
    THEN LowerLetters[CHOOSE k \in 1..26 : UpperLetters[k] = c]
    ELSE c

ToLower(s) == [i \in 1..Len(s) |-> LowerChar(s[i])]

\* strings.ReplaceAll(s, old, new) for a non-empty old, scanning left to right.
RECURSIVE ReplaceAll(_, _, _)
ReplaceAll(s, old, new) ==
    IF s = <<>> THEN <<>>
    ELSE IF HasPrefix(s, old)
         THEN new \o ReplaceAll(SubSeq(s, Len(old) + 1, Len(s)), old, new)
         ELSE <<Head(s)>> \o ReplaceAll(Tail(s), old, new)

\* strings.Split(s, "\n"): always at least one field.
RECURSIVE SplitLines(_)
SplitLines(s) ==
    IF \E i \in 1..Len(s) : s[i] = "\n"
    THEN LET i == CHOOSE k \in 1..Len(s) :
                      s[k] = "\n" /\ \A j \in 1..(k - 1) : s[j] # "\n"
         IN  <<SubSeq(s, 1, i - 1)>> \o SplitLines(SubSeq(s, i + 1, Len(s)))
    ELSE <<s>>

\* strings.Join(lines, "\n")
RECURSIVE JoinLines(_)
JoinLines(lines) ==
    IF lines = <<>> THEN <<>>
    ELSE IF Len(lines) = 1 THEN lines[1]
    ELSE lines[1] \o <<"\n">> \o JoinLines(Tail(lines))

(***************************************************************************)
(* Character codes: byte order of the characters (sorting of object keys   *)
(* in json.Marshal, \uXXXX escapes).  A character outside ASCII is written *)
(* "U" followed by its four (or eight, for a surrogate pair) hex digits;    *)
(* so is the backquote, which a TLA+ string cannot hold.                   *)
(***************************************************************************)
Printable ==
    <<" ","!","\"","#","$","%","&","'","(",")","*","+",",","-",".","/",
      "0","1","2","3","4","5","6","7","8","9",":",";","<","=",">","?",
      "@","A","B","C","D","E","F","G","H","I","J","K","L","M","N","O",
      "P","Q","R","S","T","U","V","W","X","Y","Z","[","\\","]","^","_",
      "U0060","a","b","c","d","e","f","g","h","i","j","k","l","m","n","o",
      "p","q","r","s","t","u","v","w","x","y","z","{","|","}","~">>

CharCode(c) ==
    IF \E k \in 1..Len(Printable) : Printable[k] = c
    THEN 31 + (CHOOSE k \in 1..Len(Printable) : Printable[k] = c)
    ELSE CASE c = "\t" -> 9
           [] c = "\n" -> 10
           [] c = "\f" -> 12
           [] c = "\r" -> 13
           [] OTHER -> 65533

HexDigits == <<"0","1","2","3","4","5","6","7","8","9","a","b","c","d","e","f">>

IsHex(c) == \E k \in 1..16 : HexDigits[k] = LowerChar(c)

HexVal(c) == (CHOOSE k \in 1..16 : HexDigits[k] = LowerChar(c)) - 1

Hex4Val(h) == 4096 * HexVal(h[1]) + 256 * HexVal(h[2]) + 16 * HexVal(h[3]) + HexVal(h[4])

Hex4Name(h) == LowerChar(h[1]) \o LowerChar(h[2]) \o LowerChar(h[3]) \o LowerChar(h[4])

\* The character a \uXXXX escape denotes (utf8 encoding of the rune); a lone
\* surrogate is the replacement character.
RuneChar(h) ==
    LET v == Hex4Val(h)
    IN  IF v >= 32 /\ v <= 126 THEN Printable[v - 31]
        ELSE IF v = 9 THEN "\t"
        ELSE IF v = 10 THEN "\n"
        ELSE IF v = 12 THEN "\f"
        ELSE IF v = 13 THEN "\r"
        ELSE IF v >= 55296 /\ v <= 57343 THEN "Ufffd"
        ELSE "U" \o Hex4Name(h)

IsHighSurrogate(h) == Hex4Val(h) >= 55296 /\ Hex4Val(h) <= 56319
IsLowSurrogate(h) == Hex4Val(h) >= 56320 /\ Hex4Val(h) <= 57343

AllHex(s, i, n) == i + n - 1 <= Len(s) /\ \A k \in i..(i + n - 1) : IsHex(s[k])

(***************************************************************************)
(* encoding/json, strict: json.Unmarshal accepts exactly one JSON value    *)
(* with optional surrounding white space.  A parsed value is a record      *)
(* [k |-> kind, ...]: "str" (s), "obj" (m: sequence of <<key, value>>),    *)
(* "arr" (a), "num" (s: its text), "lit" (s: "null", "true", "false").     *)
(***************************************************************************)
JsonWS == {" ", "\t", "\n", "\r"}

RECURSIVE SkipWS(_, _)
SkipWS(s, i) == IF i <= Len(s) /\ s[i] \in JsonWS THEN SkipWS(s, i + 1) ELSE i

Fail == [ok |-> FALSE]

SimpleEscape(e) ==
    CASE e = "\"" -> "\""
      [] e = "\\" -> "\\"
      [] e = "/" -> "/"
      [] e = "b" -> "U0008"
      [] e = "f" -> "\f"
      [] e = "n" -> "\n"
      [] e = "r" -> "\r"
      [] e = "t" -> "\t"

\* One character of the body of a strict JSON string.
StrictStringStep(s, st, i) ==
    IF i < st.i THEN st
    ELSE IF s[i] = "\"" THEN ReadEnd(st, [ok |-> TRUE, v |-> [k |-> "str", s |-> st.acc], n |-> i + 1])
    ELSE IF s[i] = "\\" THEN
        IF i + 1 > Len(s) THEN ReadEnd(st, Fail)
        ELSE IF s[i + 1] \in {"\"", "\\", "/", "b", "f", "n", "r", "t"}
             THEN ReadOn(st, i + 2, SimpleEscape(s[i + 1]))
        ELSE IF s[i + 1] = "u" /\ AllHex(s, i + 2, 4) THEN
             LET h == SubSeq(s, i + 2, i + 5)
             IN  IF IsHighSurrogate(h) /\ HasPrefixAt(s, i + 6, <<"\\", "u">>)
                    /\ AllHex(s, i + 8, 4) /\ IsLowSurrogate(SubSeq(s, i + 8, i + 11))
                 THEN ReadOn(st, i + 12, "U" \o Hex4Name(h) \o Hex4Name(SubSeq(s, i + 8, i + 11)))
                 ELSE ReadOn(st, i + 6, RuneChar(h))
        ELSE ReadEnd(st, Fail)
    ELSE IF s[i] \in {"\t", "\n", "\r", "\f"} THEN ReadEnd(st, Fail)
    ELSE ReadOn(st, i + 1, s[i])

\* The decoder's loop over the characters lo..hi of s.
\* The range lo..hi is halved, so that a long text needs no deep recursion;
\* the loop is left once st.done.
RECURSIVE StrictStringLoop(_, _, _, _)
StrictStringLoop(s, st, lo, hi) ==
    IF lo > hi THEN st
    ELSE IF lo = hi THEN StrictStringStep(s, st, lo)
    ELSE LET left == StrictStringLoop(s, st, lo, (lo + hi) \div 2)
         IN  IF left.done THEN left
             ELSE StrictStringLoop(s, left, (lo + hi) \div 2 + 1, hi)

\* Body of a strict JSON string; i is the index after the opening quote.
StrictStringBody(s, i, acc) ==
    StrictStringLoop(s, ReadFrom(i, acc, Fail), i, Len(s)).r

Digits == {"0","1","2","3","4","5","6","7","8","9"}

RECURSIVE SkipDigits(_, _)
SkipDigits(s, i) == IF i <= Len(s) /\ s[i] \in Digits THEN SkipDigits(s, i + 1) ELSE i

\* Index after a JSON number starting at i, or 0 when there is none.
NumberEnd(s, i) ==
    LET a == IF i <= Len(s) /\ s[i] = "-" THEN i + 1 ELSE i
        b == IF a <= Len(s) /\ s[a] = "0" THEN a + 1 ELSE SkipDigits(s, a)
        c == IF b <= Len(s) /\ s[b] = "." THEN SkipDigits(s, b + 1) ELSE b
        d == IF c <= Len(s) /\ s[c] \in {"e", "E"}
             THEN IF c + 1 <= Len(s) /\ s[c + 1] \in {"+", "-"} THEN c + 2 ELSE c + 1
             ELSE c
        e == IF d > c THEN SkipDigits(s, d) ELSE c
    IN  IF b = a THEN 0
        ELSE IF c = b + 1 /\ s[b] = "." THEN 0
        ELSE IF d > c /\ e = d THEN 0
        ELSE e

RECURSIVE ParseValue(_, _)
RECURSIVE ParseMembers(_, _, _)
RECURSIVE ParseElements(_, _, _)

\* After the value val of the member named name.
MemberValue(s, name, val, acc) ==
    IF ~val.ok THEN Fail
    ELSE LET e == SkipWS(s, val.n)
             more == Append(acc, <<name, val.v>>)
         IN  IF e > Len(s) THEN Fail
             ELSE IF s[e] = "}"
             THEN [ok |-> TRUE, v |-> [k |-> "obj", m |-> more], n |-> e + 1]
             ELSE IF s[e] = ","
             THEN ParseMembers(s, SkipWS(s, e + 1), more)
             ELSE Fail

\* After the key of a member.
MemberKey(s, key, acc) ==
    IF ~key.ok THEN Fail
    ELSE LET c == SkipWS(s, key.n)
         IN  IF c > Len(s) \/ s[c] # ":" THEN Fail
             ELSE MemberValue(s, key.v.s, ParseValue(s, SkipWS(s, c + 1)), acc)

\* Members of an object; i is at the first character of a key.
ParseMembers(s, i, acc) ==
    IF i > Len(s) \/ s[i] # "\"" THEN Fail
    ELSE MemberKey(s, StrictStringBody(s, i + 1, <<>>), acc)

\* After the element val of an array.
ElementValue(s, val, acc) ==
    IF ~val.ok THEN Fail
    ELSE LET e == SkipWS(s, val.n)
             more == Append(acc, val.v)
         IN  IF e > Len(s) THEN Fail
             ELSE IF s[e] = "]"
             THEN [ok |-> TRUE, v |-> [k |-> "arr", a |-> more], n |-> e + 1]
             ELSE IF s[e] = ","
             THEN ParseElements(s, SkipWS(s, e + 1), more)
             ELSE Fail

\* Elements of an array; i is at the first character of a value.
ParseElements(s, i, acc) == ElementValue(s, ParseValue(s, i), acc)

\* A number from i to before e, when there is one (e > 0).
NumberValue(s, i, e) ==
    IF e > 0 THEN [ok |-> TRUE, v |-> [k |-> "num", s |-> SubSeq(s, i, e - 1)], n |-> e]
    ELSE Fail

ParseValue(s, i) ==
    IF i > Len(s) THEN Fail
    ELSE IF s[i] = "\"" THEN StrictStringBody(s, i + 1, <<>>)
    ELSE IF s[i] = "{" THEN
        LET j == SkipWS(s, i + 1)
        IN  IF j <= Len(s) /\ s[j] = "}"
            THEN [ok |-> TRUE, v |-> [k |-> "obj", m |-> <<>>], n |-> j + 1]
            ELSE ParseMembers(s, j, <<>>)
    ELSE IF s[i] = "[" THEN
        LET j == SkipWS(s, i + 1)
        IN  IF j <= Len(s) /\ s[j] = "]"
            THEN [ok |-> TRUE, v |-> [k |-> "arr", a |-> <<>>], n |-> j + 1]
            ELSE ParseElements(s, j, <<>>)
    ELSE IF HasPrefixAt(s, i, <<"n","u","l","l">>)
         THEN [ok |-> TRUE, v |-> [k |-> "lit", s |-> "null"], n |-> i + 4]
    ELSE IF HasPrefixAt(s, i, <<"t","r","u","e">>)
         THEN [ok |-> TRUE, v |-> [k |-> "lit", s |-> "true"], n |-> i + 4]
    ELSE IF HasPrefixAt(s, i, <<"f","a","l","s","e">>)
         THEN [ok |-> TRUE, v |-> [k |-> "lit", s |-> "false"], n |-> i + 5]
    ELSE NumberValue(s, i, NumberEnd(s, i))

\* A value followed by nothing but white space.
WholeInput(s, r) == IF r.ok /\ SkipWS(s, r.n) = Len(s) + 1 THEN r ELSE Fail

\* json.Unmarshal's syntax check and decoding of the whole input.
JsonParse(s) == WholeInput(s, ParseValue(s, SkipWS(s, 1)))

\* The value of key in a decoded object (a Go map: the last duplicate wins).
HasKey(m, key) == \E i \in 1..Len(m) : m[i][1] = key

Lookup(m, key) ==
    m[CHOOSE i \in 1..Len(m) :
          m[i][1] = key /\ \A j \in (i + 1)..Len(m) : m[j][1] # key][2]

\* Byte-wise order of two strings (sort.Strings on the keys in json.Marshal).
RECURSIVE LexLess(_, _)
LexLess(a, b) ==
    IF b = <<>> THEN FALSE
    ELSE IF a = <<>> THEN TRUE
    ELSE IF CharCode(Head(a)) # CharCode(Head(b)) THEN CharCode(Head(a)) < CharCode(Head(b))
    ELSE LexLess(Tail(a), Tail(b))

RECURSIVE SortKeys(_)
SortKeys(keys) ==
    IF keys = {} THEN <<>>
    ELSE LET least == CHOOSE x \in keys : \A y \in keys \ {x} : ~LexLess(y, x)
         IN  <<least>> \o SortKeys(keys \ {least})

\* json.Marshal's escaping of one character of a string (HTML escaping on).
MarshalChar(c) ==
    CASE c = "\"" -> <<"\\", "\"">>
      [] c = "\\" -> <<"\\", "\\">>
      [] c = "\n" -> <<"\\", "n">>
      [] c = "\r" -> <<"\\", "r">>
      [] c = "\t" -> <<"\\", "t">>
      [] c = "\f" -> <<"\\", "u", "0", "0", "0", "c">>
      [] c = "U0008" -> <<"\\", "u", "0", "0", "0", "8">>
      [] c = "<" -> <<"\\", "u", "0", "0", "3", "c">>
      [] c = ">" -> <<"\\", "u", "0", "0", "3", "e">>
      [] c = "&" -> <<"\\", "u", "0", "0", "2", "6">>
      [] c = "U2028" -> <<"\\", "u", "2", "0", "2", "8">>
      [] c = "U2029" -> <<"\\", "u", "2", "0", "2", "9">>
      [] OTHER -> <<c>>

MarshalStep(s, st, i) == [st EXCEPT !.acc = st.acc \o MarshalChar(s[i])]

\* The encoder's loop over the characters lo..hi of s.
\* The range lo..hi is halved, so that a long text needs no deep recursion;
\* the loop is left once st.done.
RECURSIVE MarshalLoop(_, _, _, _)
MarshalLoop(s, st, lo, hi) ==
    IF lo > hi THEN st
    ELSE IF lo = hi THEN MarshalStep(s, st, lo)
    ELSE LET left == MarshalLoop(s, st, lo, (lo + hi) \div 2)
         IN  IF left.done THEN left
             ELSE MarshalLoop(s, left, (lo + hi) \div 2 + 1, hi)

MarshalChars(t) == MarshalLoop(t, [acc |-> <<>>, done |-> FALSE], 1, Len(t)).acc

MarshalString(t) == <<"\"">> \o MarshalChars(t) \o <<"\"">>

LitChars(name) ==
    CASE name = "null" -> <<"n","u","l","l">>
      [] name = "true" -> <<"t","r","u","e">>
      [] name = "false" -> <<"f","a","l","s","e">>

\* json.Marshal of a value decoded into interface{}: objects are maps (keys
\* sorted, duplicates merged), strings are escaped, the output is compact.
\* A number is a float64; the model's inputs hold only numbers whose decimal
\* text strconv.FormatFloat writes back unchanged.
RECURSIVE Marshal(_)
RECURSIVE MarshalList(_)
RECURSIVE MarshalFields(_, _)
Marshal(v) ==
    CASE v.k = "str" -> MarshalString(v.s)
      [] v.k = "num" -> v.s
      [] v.k = "lit" -> LitChars(v.s)
      [] v.k = "arr" -> <<"[">> \o MarshalList(v.a) \o <<"]">>
      [] v.k = "obj" ->
           <<"{">> \o MarshalFields(v.m, SortKeys({v.m[i][1] : i \in 1..Len(v.m)})) \o <<"}">>

MarshalList(a) ==
    IF a = <<>> THEN <<>>
    ELSE IF Len(a) = 1 THEN Marshal(a[1])
    ELSE Marshal(a[1]) \o <<",">> \o MarshalList(Tail(a))

MarshalFields(m, keys) ==
    IF keys = <<>> THEN <<>>
    ELSE MarshalString(keys[1]) \o <<":">> \o Marshal(Lookup(m, keys[1]))
         \o (IF Len(keys) = 1 THEN <<>> ELSE <<",">> \o MarshalFields(m, Tail(keys)))

(***************************************************************************)
(* The lenient scanner of internal/services.                               *)
(***************************************************************************)
maxExtractScanLength == 10485760
maxExtractedLength == 5242880
maxUnwrapRecursion == 2

\* parseLenientJSONString: i is the index after the opening quote; raw
\* newlines and unknown escapes are kept.
LenientStringStep(s, st, i) ==
    IF i < st.i THEN st
    ELSE IF s[i] = "\"" THEN ReadEnd(st, [ok |-> TRUE, v |-> st.acc, n |-> i + 1])
    ELSE IF s[i] = "\\" THEN
        IF i + 1 > Len(s) THEN ReadEnd(st, Fail)
        ELSE IF s[i + 1] \in {"\"", "\\", "/", "b", "f", "n", "r", "t"}
             THEN ReadOn(st, i + 2, SimpleEscape(s[i + 1]))
        ELSE IF s[i + 1] = "u" THEN
             IF i + 5 > Len(s) \/ ~AllHex(s, i + 2, 4) THEN ReadEnd(st, Fail)
             ELSE LET h == SubSeq(s, i + 2, i + 5)
                  IN  IF IsHighSurrogate(h) /\ i + 11 <= Len(s)
                         /\ s[i + 6] = "\\" /\ s[i + 7] = "u"
                         /\ AllHex(s, i + 8, 4) /\ IsLowSurrogate(SubSeq(s, i + 8, i + 11))
                      THEN ReadOn(st, i + 12, "U" \o Hex4Name(h) \o Hex4Name(SubSeq(s, i + 8, i + 11)))
                      ELSE ReadOn(st, i + 6, RuneChar(h))
        ELSE ReadOn(st, i + 2, s[i + 1])
    ELSE ReadOn(st, i + 1, s[i])

\* The for loop of parseLenientJSONString over the characters lo..hi of s.
\* The range lo..hi is halved, so that a long text needs no deep recursion;
\* the loop is left once st.done.
RECURSIVE LenientStringLoop(_, _, _, _)
LenientStringLoop(s, st, lo, hi) ==
    IF lo > hi THEN st
    ELSE IF lo = hi THEN LenientStringStep(s, st, lo)
    ELSE LET left == LenientStringLoop(s, st, lo, (lo + hi) \div 2)
         IN  IF left.done THEN left
             ELSE LenientStringLoop(s, left, (lo + hi) \div 2 + 1, hi)

LenientStringBody(s, i, acc) ==
    LenientStringLoop(s, ReadFrom(i, acc, Fail), i, Len(s)).r

parseLenientJSONString(s, startQuote) ==
    IF startQuote < 1 \/ startQuote > Len(s) \/ s[startQuote] # "\"" THEN Fail
    ELSE LenientStringBody(s, startQuote + 1, <<>>)

DescriptionKey == <<"\"","d","e","s","c","r","i","p","t","i","o","n","\"">>

RECURSIVE SkipBlank(_, _)
SkipBlank(s, i) ==
    IF i <= Len(s) /\ s[i] \in {" ", "\t", "\n", "\r"} THEN SkipBlank(s, i + 1) ELSE i

\* The string r read as the value of the key, within the size limit.
ExtractedValue(r) ==
    IF ~r.ok THEN Fail
    ELSE IF Len(r.v) > maxExtractedLength THEN Fail
    ELSE [ok |-> TRUE, v |-> r.v]

\* The value after a matched top-level "description" key that starts at i.
ExtractValueAfterKey(s, i) ==
    LET c == SkipBlank(s, i + Len(DescriptionKey))
    IN  IF c > Len(s) \/ s[c] # ":" THEN Fail
        ELSE LET q == SkipBlank(s, c + 1)
             IN  IF q > Len(s) THEN Fail
                 ELSE IF s[q] # "\"" THEN Fail
                 ELSE ExtractedValue(parseLenientJSONString(s, q))

\* The scan loop of ExtractDescriptionJSONLike from index i on.
ExtractStep(s, st, i) ==
    IF st.escapeNext THEN [st EXCEPT !.escapeNext = FALSE]
    ELSE IF s[i] = "\\" /\ st.inString THEN [st EXCEPT !.escapeNext = TRUE]
    ELSE IF s[i] = "\"" THEN
        IF st.depth = 1 /\ ~st.inString /\ HasPrefixAt(s, i, DescriptionKey)
        THEN [st EXCEPT !.done = TRUE, !.r = ExtractValueAfterKey(s, i)]
        ELSE [st EXCEPT !.inString = ~st.inString]
    ELSE IF ~st.inString /\ s[i] \in {"{", "["} THEN [st EXCEPT !.depth = st.depth + 1]
    ELSE IF ~st.inString /\ s[i] \in {"}", "]"} THEN
        IF st.depth - 1 < 0 THEN [st EXCEPT !.done = TRUE, !.r = Fail]
        ELSE [st EXCEPT !.depth = st.depth - 1]
    ELSE st

\* The for loop of ExtractDescriptionJSONLike over the characters lo..hi of s.
\* The range lo..hi is halved, so that a long text needs no deep recursion;
\* the loop is left once st.done.
RECURSIVE ExtractLoop(_, _, _, _)
ExtractLoop(s, st, lo, hi) ==
    IF lo > hi THEN st
    ELSE IF lo = hi THEN ExtractStep(s, st, lo)
    ELSE LET left == ExtractLoop(s, st, lo, (lo + hi) \div 2)
         IN  IF left.done THEN left
             ELSE ExtractLoop(s, left, (lo + hi) \div 2 + 1, hi)

ExtractScan(s, i, depth, inString, escapeNext) ==
    ExtractLoop(s,
            [depth |-> depth, inString |-> inString, escapeNext |-> escapeNext,
             done |-> FALSE, r |-> Fail],
            i, Len(s)).r

ExtractDescriptionJSONLike(s) ==
    IF Len(s) > maxExtractScanLength THEN Fail
    ELSE IF ~\E i \in 1..Len(s) : s[i] = "{" THEN Fail
    ELSE LET open == CHOOSE i \in 1..Len(s) :
                         s[i] = "{" /\ \A j \in 1..(i - 1) : s[j] # "{"
         IN  ExtractScan(s, open + 1, 1, FALSE, FALSE)

\* json.Unmarshal into struct{ Description any `json:"description"` }: the
\* input must be an object (or null); a key matches the field exactly or
\* under case folding, and the last matching key decides.
FoldKey(key) == ToLower(key) = <<"d","e","s","c","r","i","p","t","i","o","n">>

StructDescription(m) ==
    IF \E i \in 1..Len(m) : FoldKey(m[i][1])
    THEN m[CHOOSE i \in 1..Len(m) :
               FoldKey(m[i][1]) /\ \A j \in (i + 1)..Len(m) : ~FoldKey(m[j][1])][2]
    ELSE [k |-> "lit", s |-> "null"]

RECURSIVE unwrapDescriptionTextRecursive(_, _)

\* Case A, strict: the description field desc of the decoded object.
UnwrapField(input, desc, depth) ==
    IF desc.k = "str" /\ TrimSpace(desc.s) # <<>>
    THEN unwrapDescriptionTextRecursive(desc.s, depth + 1)
    ELSE IF desc.k \in {"obj", "arr"}
    THEN unwrapDescriptionTextRecursive(Marshal(desc), depth + 1)
    ELSE input

\* The cases of one level on the trimmed input s, given its strict decoding
\* and the result of the lenient scan.
UnwrapCases(input, s, parsed, lenient, depth) ==
    LET caseA == HasPrefix(s, <<"{">>) /\ Contains(s, DescriptionKey)
        objOk == parsed.ok /\ parsed.v.k = "obj"
        lenientHit == lenient.ok /\ TrimSpace(lenient.v) # <<>>
        caseB == HasPrefix(s, <<"\"">>)
    IN  IF caseA /\ objOk
        THEN UnwrapField(input, StructDescription(parsed.v.m), depth)
        ELSE IF caseA /\ lenientHit
        THEN unwrapDescriptionTextRecursive(lenient.v, depth + 1)
        ELSE IF caseB /\ parsed.ok /\ parsed.v.k = "str"
        THEN unwrapDescriptionTextRecursive(parsed.v.s, depth + 1)
        ELSE IF caseB /\ ~parsed.ok /\ lenientHit
        THEN unwrapDescriptionTextRecursive(lenient.v, depth + 1)
        ELSE input

\* A variant that answers with the trimmed copy it worked on.
UnwrapTrimmedCopy(input, s, depth) ==
    IF s = <<>> THEN s
    ELSE UnwrapCases(s, s, JsonParse(s), ExtractDescriptionJSONLike(s), depth)

UnwrapTrimmed(input, s, depth) ==
    IF s = <<>> THEN input
    ELSE UnwrapCases(input, s, JsonParse(s), ExtractDescriptionJSONLike(s), depth)

\* A variant that resolves one wrapper only.
UnwrapOneLevel(input, depth) ==
    IF depth >= 1 THEN input
    ELSE UnwrapTrimmed(input, TrimSpace(input), depth)

\* unwrapDescriptionTextRecursive
unwrapDescriptionTextRecursive(input, depth) ==
    IF depth >= maxUnwrapRecursion THEN input
    ELSE UnwrapTrimmed(input, TrimSpace(input), depth)

\* A variant that enters the recursion one level down.
UnwrapBelowTop(input) == unwrapDescriptionTextRecursive(input, 1)

UnwrapDescriptionText(input) == unwrapDescriptionTextRecursive(input, 0)

(***************************************************************************)
(* The two normalizer tiers.                                               *)
(***************************************************************************)

\* NormalizeRaw: \r\n and \r become \n, trailing blanks and tabs of every
\* line are trimmed.
NormalizeRaw(rawText) ==
    LET unix == ReplaceAll(ReplaceAll(rawText, <<"\r", "\n">>, <<"\n">>), <<"\r">>, <<"\n">>)
        lines == SplitLines(unix)
    IN  JoinLines([i \in 1..Len(lines) |-> TrimRightSet(lines[i], {" ", "\t"})])

\* The regexp class \s of Go's regexp package.
ReSpace == {" ", "\t", "\n", "\r", "\f"}

FormattingTagNames ==
    { <<"s","t","r","o","n","g">>, <<"b">>, <<"e","m">>, <<"i">>, <<"u">>,
      <<"b","r">>, <<"p">> }

\* formattingTagPattern matched at position p of tag, whose only ">" is its
\* last character: "<", an optional "/", a name, then nothing, "/" or a
\* white-space character followed by anything.
FormattingAt(tag, p) ==
    /\ tag[p] = "<"
    /\ \E slash \in {0, 1} : \E name \in FormattingTagNames :
          LET q == p + 1 + slash
              rest == SubSeq(tag, q + Len(name), Len(tag) - 1)
          IN  /\ slash = 1 => (p + 1 <= Len(tag) /\ tag[p + 1] = "/")
              /\ q + Len(name) - 1 <= Len(tag) - 1
              /\ ToLower(SubSeq(tag, q, q + Len(name) - 1)) = name
              /\ (rest = <<>> \/ rest = <<"/">> \/ Head(rest) \in ReSpace)

IsFormattingTag(tag) == \E p \in 1..Len(tag) : FormattingAt(tag, p)

\* stripNonFormattingTags: every leftmost match of <[^>]*> is kept when it
\* is a formatting tag and replaced by a space otherwise.
RECURSIVE stripNonFormattingTags(_)
stripNonFormattingTags(text) ==
    IF \E i \in 1..Len(text) : text[i] = "<" /\ \E j \in (i + 1)..Len(text) : text[j] = ">"
    THEN LET i == CHOOSE a \in 1..Len(text) :
                      /\ text[a] = "<" /\ \E j \in (a + 1)..Len(text) : text[j] = ">"
                      /\ \A b \in 1..(a - 1) :
                            ~(text[b] = "<" /\ \E j \in (b + 1)..Len(text) : text[j] = ">")
             e == CHOOSE j \in (i + 1)..Len(text) :
                      text[j] = ">" /\ \A m \in (i + 1)..(j - 1) : text[m] # ">"
             tag == SubSeq(text, i, e)
         IN  SubSeq(text, 1, i - 1)
             \o (IF IsFormattingTag(tag) THEN tag ELSE <<" ">>)
             \o stripNonFormattingTags(SubSeq(text, e + 1, Len(text)))
    ELSE text

SpaceEntities ==
    { <<"&","n","b","s","p",";">>, <<"&","e","n","s","p",";">>,
      <<"&","e","m","s","p",";">>, <<"&","t","h","i","n","s","p",";">> }

\* punctuationEntityPattern replaced by "$1": a space entity that follows a
\* punctuation mark is removed.
RECURSIVE StripPunctuationEntities(_)
StripPunctuationEntities(t) ==
    IF t = <<>> THEN <<>>
    ELSE IF Head(t) \in {".", ",", ";", ":", "!", "?"}
            /\ \E e \in SpaceEntities : HasPrefixAt(t, 2, e)
    THEN LET e == CHOOSE x \in SpaceEntities : HasPrefixAt(t, 2, x)
         IN  <<Head(t)>> \o StripPunctuationEntities(SubSeq(t, 2 + Len(e), Len(t)))
    ELSE <<Head(t)>> \o StripPunctuationEntities(Tail(t))

\* html.UnescapeString over the entities the model's texts use.  A name is
\* looked up with its ";"; the names of EntityNoSemicolon are also decoded
\* as the longest prefix (at most 6 characters) of an unterminated name.
EntityTable ==
    << <<<<"a","m","p">>, "&">>, <<<<"l","t">>, "<">>, <<<<"g","t">>, ">">>,
       <<<<"q","u","o","t">>, "\"">>, <<<<"n","b","s","p">>, "U00a0">>,
       <<<<"a","p","o","s">>, "'">>, <<<<"e","n","s","p">>, "U2002">>,
       <<<<"e","m","s","p">>, "U2003">>, <<<<"t","h","i","n","s","p">>, "U2009">> >>

EntityNoSemicolon ==
    { <<"a","m","p">>, <<"l","t">>, <<"g","t">>, <<"q","u","o","t">>, <<"n","b","s","p">> }

IsEntity(name) == \E k \in 1..Len(EntityTable) : EntityTable[k][1] = name

EntityChar(name) == EntityTable[CHOOSE k \in 1..Len(EntityTable) : EntityTable[k][1] = name][2]

IsAlnum(c) ==
    \/ c \in Digits
    \/ \E k \in 1..26 : UpperLetters[k] = c \/ LowerLetters[k] = c

RECURSIVE SkipAlnum(_, _)
SkipAlnum(s, i) == IF i <= Len(s) /\ IsAlnum(s[i]) THEN SkipAlnum(s, i + 1) ELSE i

RECURSIVE UnescapeString(_)
UnescapeString(t) ==
    IF t = <<>> THEN <<>>
    ELSE IF Head(t) # "&" THEN <<Head(t)>> \o UnescapeString(Tail(t))
    ELSE LET e == SkipAlnum(t, 2)
             name == SubSeq(t, 2, e - 1)
             legacy == {j \in 2..6 : j <= Len(name) /\ SubSeq(name, 1, j) \in EntityNoSemicolon}
         IN  IF e <= Len(t) /\ t[e] = ";" /\ IsEntity(name)
             THEN <<EntityChar(name)>> \o UnescapeString(SubSeq(t, e + 1, Len(t)))
             ELSE IF legacy # {}
             THEN LET j == CHOOSE x \in legacy : \A y \in legacy : y <= x
                  IN  <<EntityChar(SubSeq(name, 1, j))>> \o UnescapeString(SubSeq(t, j + 2, Len(t)))
             ELSE SubSeq(t, 1, e - 1) \o UnescapeString(SubSeq(t, e, Len(t)))

\* pipeOnlyPattern ^[\s|]+$
PipeOnly(line) == line # <<>> /\ \A i \in 1..Len(line) : line[i] \in ReSpace \cup {"|"}

\* pipeNumberPattern \|[0-9]+\| replaced by a space.
RECURSIVE ReplacePipeNumber(_)
ReplacePipeNumber(t) ==
    IF t = <<>> THEN <<>>
    ELSE LET d == SkipDigits(t, 2)
         IN  IF Head(t) = "|" /\ d > 2 /\ d <= Len(t) /\ t[d] = "|"
             THEN <<" ">> \o ReplacePipeNumber(SubSeq(t, d + 1, Len(t)))
             ELSE <<Head(t)>> \o ReplacePipeNumber(Tail(t))

RECURSIVE SkipSet(_, _, _)
SkipSet(s, i, set) == IF i <= Len(s) /\ s[i] \in set THEN SkipSet(s, i + 1, set) ELSE i

\* doublePipePattern \|\|+ replaced by a space.
RECURSIVE ReplaceDoublePipes(_)
ReplaceDoublePipes(t) ==
    IF t = <<>> THEN <<>>
    ELSE LET e == SkipSet(t, 1, {"|"})
         IN  IF e > 2
             THEN <<" ">> \o ReplaceDoublePipes(SubSeq(t, e, Len(t)))
             ELSE <<Head(t)>> \o ReplaceDoublePipes(Tail(t))

\* leadingPipePattern ^\|+[\s]* removed.
StripLeadingPipes(t) ==
    LET e == SkipSet(t, 1, {"|"})
    IN  IF e > 1 THEN SubSeq(t, SkipSet(t, e, ReSpace), Len(t)) ELSE t

\* trailingPipePattern [\s]*\|+$ removed (the leftmost match).
StripTrailingPipes(t) ==
    LET body == TrimRightSet(t, {"|"})
    IN  IF Len(body) < Len(t) THEN TrimRightSet(body, ReSpace) ELSE t

\* spacePattern \s{2,} replaced by one space.
RECURSIVE CollapseSpaces(_)
CollapseSpaces(t) ==
    IF t = <<>> THEN <<>>
    ELSE LET e == SkipSet(t, 1, ReSpace)
         IN  IF e > 2
             THEN <<" ">> \o CollapseSpaces(SubSeq(t, e, Len(t)))
             ELSE <<Head(t)>> \o CollapseSpaces(Tail(t))

CleanLine(line) ==
    TrimSpace(CollapseSpaces(StripTrailingPipes(StripLeadingPipes(
        ReplaceDoublePipes(ReplacePipeNumber(line))))))

MaxBlankLines == 2

\* The line loop of Normalize: pipe-only lines are dropped, the others are
\* cleaned, and a run of blank lines keeps its first two.
RECURSIVE ProcessLines(_, _)
ProcessLines(lines, blankLineCount) ==
    IF lines = <<>> THEN <<>>
    ELSE IF PipeOnly(Head(lines)) THEN ProcessLines(Tail(lines), blankLineCount)
    ELSE LET cleaned == CleanLine(Head(lines))
         IN  IF cleaned = <<>>
             THEN (IF blankLineCount + 1 <= MaxBlankLines THEN << <<>> >> ELSE <<>>)
                  \o ProcessLines(Tail(lines), blankLineCount + 1)
             ELSE <<cleaned>> \o ProcessLines(Tail(lines), 0)

Normalize(rawText) ==
    JoinLines(ProcessLines(
        SplitLines(NormalizeRaw(UnescapeString(StripPunctuationEntities(
            stripNonFormattingTags(rawText))))), 0))

(***************************************************************************)
(* DetectSource, FetchDescription and the rows HandleGetDescription builds.*)
(***************************************************************************)
NORMALIZATION_VERSION == 4
maxBodySize == 5242880
StatusOK == 200
StatusNotFound == 404

\* A nil pointer is the empty tuple, a set one the 1-tuple of its value.
Nil == <<>>
Some(x) == <<x>>

DetectSource(description) ==
    LET desc == TrimSpace(description)
    IN  IF desc = <<>> THEN [sourceType |-> "none", url |-> <<>>, inline |-> <<>>]
        ELSE IF HasPrefix(desc, <<"h","t","t","p",":","/","/">>)
                \/ HasPrefix(desc, <<"h","t","t","p","s",":","/","/">>)
        THEN [sourceType |-> "url", url |-> desc, inline |-> <<>>]
        ELSE [sourceType |-> "inline", url |-> <<>>, inline |-> desc]

NotFoundPhrase ==
    <<"d","e","s","c","r","i","p","t","i","o","n"," ","n","o","t"," ","f","o","u","n","d">>

DescriptionName == <<"d","e","s","c","r","i","p","t","i","o","n">>
ErrorName == <<"e","r","r","o","r">>

NoError == [e |-> "none"]

\* finalize of FetchDescription
Finalize(t) == TrimSpace(UnwrapDescriptionText(t))

FetchResult(rawText, rawJson, status, err) ==
    [rawText |-> rawText, rawJsonResponse |-> rawJson, httpStatus |-> status, err |-> err]

StatusError(code) == [e |-> "status", code |-> code]

\* The branches of FetchDescription on a body that was read within the size
\* limit: parsed is its strict decoding, lenient the lenient extraction,
\* plain the finalized body.
FetchBody(status, body, parsed, lenient, plain) ==
    LET isMap == parsed.ok /\ (parsed.v.k = "obj" \/ (parsed.v.k = "lit" /\ parsed.v.s = "null"))
        m == IF parsed.ok /\ parsed.v.k = "obj" THEN parsed.v.m ELSE <<>>
        hasDesc == HasKey(m, DescriptionName) /\ Lookup(m, DescriptionName).k = "str"
                   /\ Lookup(m, DescriptionName).s # <<>>
        hasNotFound == HasKey(m, ErrorName) /\ Lookup(m, ErrorName).k = "str"
                       /\ Contains(ToLower(Lookup(m, ErrorName).s), NotFoundPhrase)
    IN  IF isMap /\ hasDesc
        THEN FetchResult(Finalize(Lookup(m, DescriptionName).s), body, status, NoError)
        ELSE IF isMap /\ hasNotFound
        THEN FetchResult(<<>>, body, StatusNotFound, NoError)
        ELSE IF ~isMap /\ lenient.ok /\ TrimSpace(lenient.v) # <<>>
        THEN FetchResult(Finalize(lenient.v), body, status, NoError)
        ELSE IF ~isMap /\ Contains(ToLower(plain), NotFoundPhrase)
        THEN FetchResult(plain, body, StatusNotFound, NoError)
        ELSE FetchResult(plain, body, status,
                 IF status # StatusOK THEN StatusError(status) ELSE NoError)

\* FetchDescription on the upstream's answer resp: a transport failure, a
\* body that cannot be read, or a status with a body of size bytes.
FetchDescription(resp) ==
    IF resp.kind = "neterr" THEN FetchResult(<<>>, <<>>, 0, [e |-> "transport"])
    ELSE IF resp.kind = "readerr" THEN FetchResult(<<>>, <<>>, resp.status, [e |-> "read"])
    ELSE IF resp.size >= maxBodySize THEN FetchResult(<<>>, <<>>, resp.status, [e |-> "too large"])
    ELSE FetchBody(resp.status, resp.body, JsonParse(resp.body),
                   ExtractDescriptionJSONLike(resp.body), Finalize(resp.body))

\* The outputs of OptimizeForAI are a function of its input alone; a row
\* carries, for them, the text they were computed from.
OptimizeForAI(rawPostParse) == [from |-> rawPostParse]

ComputeContentHash(text) == [sha256 |-> text]

\* An OpportunityDescription with every pointer nil.
BlankDescription(sourceType, fetchStatus) ==
    [sourceType |-> sourceType, fetchStatus |-> fetchStatus, httpStatus |-> Nil,
     rawText |-> Nil, rawTextNormalized |-> Nil, textNormalized |-> Nil,
     contentHash |-> Nil, lastError |-> Nil, rawJsonResponse |-> Nil,
     normalizationVersion |-> Nil, aiInputText |-> Nil, aiInputVersion |-> Nil]

\* WithTiers without the version stamp.
WithTiersUnstamped(desc, rawText, rawTextNormalized, textNormalized) ==
    [desc EXCEPT !.rawText = Some(rawText),
                 !.rawTextNormalized = Some(rawTextNormalized),
                 !.textNormalized = Some(textNormalized),
                 !.contentHash = Some(ComputeContentHash(textNormalized)),
                 !.aiInputText = Some(OptimizeForAI(rawTextNormalized)),
                 !.aiInputVersion = Some(1)]

\* The three tiers, hash, version and AI fields set on desc.
WithTiers(desc, rawText, rawTextNormalized, textNormalized) ==
    [desc EXCEPT !.rawText = Some(rawText),
                 !.rawTextNormalized = Some(rawTextNormalized),
                 !.textNormalized = Some(textNormalized),
                 !.contentHash = Some(ComputeContentHash(textNormalized)),
                 !.normalizationVersion = Some(NORMALIZATION_VERSION),
                 !.aiInputText = Some(OptimizeForAI(rawTextNormalized)),
                 !.aiInputVersion = Some(1)]

WithNormalized(desc, rawText, rawTextNormalized) ==
    WithTiers(desc, rawText, rawTextNormalized, Normalize(rawTextNormalized))

WithRawText(desc, rawText) == WithNormalized(desc, rawText, NormalizeRaw(rawText))

\* Unwrap, then both normalizer tiers, hash, version and AI fields.
WithProcessedText(desc, text) == WithRawText(desc, UnwrapDescriptionText(text))

\* The row of the "none" case.
NoneDescription == BlankDescription("none", "not_found")

\* The row of the inline case.
InlineDescription(sourceInline) ==
    WithProcessedText(BlankDescription("inline", "fetched"), sourceInline)

\* The first row of a url-sourced description.
InitialDescription == BlankDescription("url", "not_requested")

\* The row built from the fetch result fr in the url case.
FetchedDescription(fr) ==
    LET base == [BlankDescription("url", "error") EXCEPT !.httpStatus = Some(fr.httpStatus)]
        rawJson == IF fr.rawJsonResponse # <<>> THEN Some(fr.rawJsonResponse) ELSE Nil
    IN  IF fr.err # NoError
        THEN [base EXCEPT !.lastError = Some(fr.err)]
        ELSE IF fr.httpStatus = StatusNotFound \/ Contains(ToLower(fr.rawText), NotFoundPhrase)
        THEN [base EXCEPT !.fetchStatus = "not_found", !.rawText = Some(fr.rawText),
                          !.rawJsonResponse = rawJson]
        ELSE WithProcessedText(
                 [base EXCEPT !.fetchStatus = "fetched", !.rawJsonResponse = rawJson],
                 fr.rawText)

HasHTML(t) == Contains(t, <<"<">>) /\ Contains(t, <<">">>)

\* The description of a decoded raw response, or the raw response itself.
DescriptionOrRaw(raw, parsed) ==
    LET m == IF parsed.ok /\ parsed.v.k = "obj" THEN parsed.v.m ELSE <<>>
    IN  IF HasKey(m, DescriptionName) /\ Lookup(m, DescriptionName).k = "str"
           /\ Lookup(m, DescriptionName).s # <<>>
        THEN Lookup(m, DescriptionName).s
        ELSE raw

\* The text a stale cached row is re-processed from: the description of the
\* stored raw response, the raw response itself, or the raw text.
StaleSourceText(existing) ==
    IF existing.rawJsonResponse # Nil /\ existing.rawJsonResponse[1] # <<>>
    THEN DescriptionOrRaw(existing.rawJsonResponse[1], JsonParse(existing.rawJsonResponse[1]))
    ELSE IF existing.rawText # Nil THEN existing.rawText[1]
    ELSE <<>>

\* A row at the current version: re-processed when unwrapping changes its raw
\* text or markup is left in a tier.
HealCurrent(existing, fixedRaw) ==
    LET inNormalized ==
            \/ existing.rawTextNormalized # Nil /\ HasHTML(existing.rawTextNormalized[1])
            \/ existing.textNormalized # Nil /\ HasHTML(existing.textNormalized[1])
    IN  IF fixedRaw # existing.rawText[1] \/ HasHTML(fixedRaw) \/ inNormalized
        THEN [needsReprocessing |-> TRUE, sourceText |-> fixedRaw]
        ELSE [needsReprocessing |-> FALSE, sourceText |-> <<>>]

\* The self-heal decision on a cached fetched row: whether it is re-processed
\* and from which text.
SelfHeal(existing) ==
    IF existing.normalizationVersion = Nil
       \/ existing.normalizationVersion[1] # NORMALIZATION_VERSION
    THEN [needsReprocessing |-> TRUE, sourceText |-> StaleSourceText(existing)]
    ELSE IF existing.rawText # Nil
    THEN HealCurrent(existing, UnwrapDescriptionText(existing.rawText[1]))
    ELSE [needsReprocessing |-> FALSE, sourceText |-> <<>>]

\* Whether the decision heal re-processes the row.
Reprocesses(heal) == heal.needsReprocessing /\ heal.sourceText # <<>>

\* The row after the decision heal (the row itself when nothing is re-processed).
HealedDescription(existing, heal) ==
    IF Reprocesses(heal) THEN WithProcessedText(existing, heal.sourceText) ELSE existing

\* UpsertDescription: a nil ai_input_version is stored as 1; every column of
\* the statement is overwritten.
UpsertRow(desc) ==
    IF desc.aiInputVersion = Nil THEN [desc EXCEPT !.aiInputVersion = Some(1)] ELSE desc

\* buildDescriptionResponse: the status of the answer.
ResponseStatus(desc) ==
    CASE desc.fetchStatus = "fetched" -> "fetched"
      [] desc.fetchStatus = "not_found" -> "not_found"
      [] desc.fetchStatus = "error" -> "error"
      [] OTHER -> IF desc.sourceType = "none" THEN "none" ELSE "available_unfetched"

\* GetDescriptionStatus: the status the list endpoints compute for the stored
\* row (no row reads as "none").
GetDescriptionStatus(row) ==
    IF row = Nil THEN "none"
    ELSE IF row[1].sourceType = "none" THEN "none"
    ELSE CASE row[1].fetchStatus = "fetched" -> "ready"
           [] row[1].fetchStatus = "not_found" -> "not_found"
           [] row[1].fetchStatus = "error" -> "error"
           [] OTHER -> "available_unfetched"

(***************************************************************************)
(* The description store and HandleGetDescription, one opportunity.        *)
(***************************************************************************)
NumReq == 2

Requests == 1..NumReq

\* Values of opportunity.description: none, a url, plain inline text, inline
\* text of markup only, inline text with formatting tags.
DescUrl == <<"h","t","t","p","s",":","/","/","x">>
DescPlain == <<"H","i">>
DescPipe == <<"|">>
DescBold == <<"<","b",">","H","i","<","/","b",">">>
OppDescriptions == {<<>>, DescUrl, DescPlain, DescPipe, DescBold}

BodyJson == <<"{","\"","d","e","s","c","r","i","p","t","i","o","n","\"",":","\"","H","i","\"","}">>
BodyNotFound == <<"D","e","s","c","r","i","p","t","i","o","n"," ","N","o","t"," ","F","o","u","n","d">>
BodyGone == <<"g","o","n","e">>

\* The upstream's answer 200 with a JSON body that holds a description.
UpstreamJson == [kind |-> "ok", status |-> 200, body |-> BodyJson, size |-> Len(BodyJson)]

\* What the upstream may answer to one fetch.
UpstreamAnswers ==
    {[kind |-> "neterr", status |-> 0, body |-> <<>>, size |-> 0],
     [kind |-> "readerr", status |-> 200, body |-> <<>>, size |-> 0],
     [kind |-> "ok", status |-> 200, body |-> <<>>, size |-> maxBodySize],
     UpstreamJson,
     [kind |-> "ok", status |-> 500, body |-> BodyJson, size |-> Len(BodyJson)],
     [kind |-> "ok", status |-> 200, body |-> <<>>, size |-> 0],
     [kind |-> "ok", status |-> 200, body |-> BodyNotFound, size |-> Len(BodyNotFound)],
     [kind |-> "ok", status |-> 404, body |-> BodyGone, size |-> Len(BodyGone)]}

\* Rows written before the normalization version was stored, or under an
\* older version: fetched, with their three tiers.
LegacyWrapped ==
    [BlankDescription("url", "fetched") EXCEPT
        !.httpStatus = Some(200), !.rawText = Some(BodyJson),
        !.rawTextNormalized = Some(BodyJson), !.textNormalized = Some(BodyJson),
        !.contentHash = Some(ComputeContentHash(BodyJson)),
        !.rawJsonResponse = Some(BodyJson), !.aiInputVersion = Some(1)]

LegacyOlder ==
    [BlankDescription("url", "fetched") EXCEPT
        !.httpStatus = Some(200), !.rawText = Some(DescPlain),
        !.rawTextNormalized = Some(DescPlain), !.textNormalized = Some(DescPlain),
        !.contentHash = Some(ComputeContentHash(DescPlain)),
        !.normalizationVersion = Some(NORMALIZATION_VERSION - 1),
        !.aiInputVersion = Some(1)]

LegacyRows == {LegacyWrapped, LegacyOlder}

\* The rows of the fetch and inline cases, computed once.
FetchedRows == [a \in UpstreamAnswers |-> FetchedDescription(FetchDescription(a))]
InlineRows == [d \in OppDescriptions |-> InlineDescription(DetectSource(d).inline)]
SourceTypes == [d \in OppDescriptions |-> DetectSource(d).sourceType]

\* An ingested record: of the hashed fields the title and the description,
\* of the fields outside the hash the solicitation number.
NoticeId == "N1"

OppInputs ==
    [noticeId : {NoticeId}, title : {"T1", "T2"}, description : {DescUrl},
     solicitationNumber : {"S1", "S2"}]

\* A digest over the whole record, the fields outside the hashed subset too.
HashOfWholeRecord(opp) == [sha256 |-> opp]

\* computeContentHash: the digest of the hashed fields.
computeContentHash(opp) ==
    [sha256 |-> [noticeId |-> opp.noticeId, title |-> opp.title,
                 description |-> opp.description]]

\* The columns of an opportunity row written for opp with the digest hash.
OpportunityRow(opp, hash) ==
    [title |-> opp.title, description |-> opp.description, contentHash |-> hash]

\* A record ingested earlier whose description field is d, and the
\* opportunity row stored for it.
IngestedRecord(d) ==
    [noticeId |-> NoticeId, title |-> "T1", description |-> d, solicitationNumber |-> "S1"]

StoredOpportunity(d) == OpportunityRow(IngestedRecord(d), computeContentHash(IngestedRecord(d)))

VARIABLES
    opportunity,          \* Nil, or the 1-tuple of the opportunity row
    description,          \* Nil, or the 1-tuple of the opportunity_description row
    recordLock,           \* 0, or the request holding the per-record advisory lock
    req,                  \* per request: position, locals and what it has done
    row0,                 \* the description row before the first request
    faults,               \* whether a store or lock statement has failed
    opportunity_raw,      \* Nil, or the 1-tuple of the raw record last stored
    opportunity_version,  \* the version rows, oldest first
    fleetLock,            \* per lock key: 0, or the job whose session holds it
    job,                  \* per batch job: position, locals, statistics
    text,                 \* the text the functions of internal/services are applied to
    result,               \* the last function applied to it and what it returned
    rows,                 \* backfill: the rows of the query not yet scanned
    workChan,             \* backfill: the records waiting on the work queue
    worker,               \* backfill: per worker goroutine, position and locals
    bucket,               \* backfill: the shared token bucket
    pool,                 \* backfill: main, the producer and the shared counters
    pager                 \* IngestOpportunities: position, offset, pages and statistics

dvars == <<recordLock, req, row0, faults>>
jvars == <<opportunity_raw, opportunity_version, fleetLock, job>>
tvars == <<text, result>>
wvars == <<rows, workChan, worker, bucket, pool>>
pvars == <<pager>>
vars == <<opportunity, description, recordLock, req, row0, faults,
          opportunity_raw, opportunity_version, fleetLock, job, text, result,
          rows, workChan, worker, bucket, pool, pager>>

\* No function has been applied.
NoResult == [op |-> "none"]

TextAtRest == text = <<>> /\ result = NoResult

MaxWorkers == 2
Workers == 1..MaxWorkers

\* A worker goroutine that has not been started.
IdleWorker == [pc |-> "off", rec |-> 0, attempt |-> 0]

\* The backfill has not reached its worker pool.
PoolAtRest ==
    /\ rows = <<>>
    /\ workChan = <<>>
    /\ worker = [w \in Workers |-> IdleWorker]
    /\ bucket = [tokens |-> 0, capacity |-> 0, refillRate |-> 0, elapsed |-> 0]
    /\ pool = [pc |-> "off"]

\* IngestOpportunities has not been called.
PagerAtRest == pager = [pc |-> "off"]

IdleJob ==
    [pc |-> "idle", kind |-> "", dryRun |-> FALSE, busy |-> FALSE,
     pending |-> 0, more |-> FALSE, rec |-> Nil, desc |-> Nil, attempt |-> 0,
     backoff |-> 0, slept |-> <<>>, err |-> "",
     exit |-> 0, last |-> Nil,
     stats |-> [total |-> 0, new |-> 0, updated |-> 0, skipped |-> 0, errors |-> 0,
                processed |-> 0]]

NumJobs == 2
Jobs == 1..NumJobs

ingestionLockKey == 1
backfillLockKey == 2
LockKeys == {ingestionLockKey, backfillLockKey}

\* No batch job has started; opportunity_raw holds the record the
\* opportunity row was ingested from.
JobsAtRest ==
    /\ opportunity_raw \in {Nil} \cup {Some(IngestedRecord(d)) : d \in OppDescriptions}
    /\ (opportunity = Nil) = (opportunity_raw = Nil)
    /\ opportunity # Nil => opportunity[1] = StoredOpportunity(opportunity_raw[1].description)
    /\ opportunity_version = <<>>
    /\ fleetLock = [k \in LockKeys |-> 0]
    /\ job = [j \in Jobs |-> IdleJob]

IdleRequest ==
    [pc |-> "idle", refresh |-> FALSE, existing |-> Nil, desc |-> Nil, code |-> 0,
     status |-> "", read |-> "", busy |-> FALSE, fetched |-> FALSE, upstream |-> "",
     wrote |-> "no"]

InitD ==
    /\ opportunity \in {Nil} \cup {Some(StoredOpportunity(d)) : d \in OppDescriptions}
    /\ description \in {Nil} \cup
           IF opportunity = Some(StoredOpportunity(DescUrl))
           THEN {Some(l) : l \in LegacyRows} ELSE {}
    /\ recordLock = 0
    /\ req = [r \in Requests |-> IdleRequest]
    /\ row0 = description
    /\ faults = FALSE
    /\ JobsAtRest
    /\ TextAtRest
    /\ PoolAtRest
    /\ PagerAtRest

\* GetDescription: the row, "not found", or a failed read.
GetDescription(ok) ==
    IF ~ok THEN [err |-> "failed", desc |-> Nil]
    ELSE IF description = Nil THEN [err |-> "not found", desc |-> Nil]
    ELSE [err |-> "none", desc |-> description]

\* WriteJSON: the answer of the request, and where the handler goes next.
Answer(rq, code, status, pc) ==
    [rq EXCEPT !.pc = pc, !.code = code, !.status = status, !.existing = Nil, !.desc = Nil]

sourceType == IF opportunity = Nil THEN "" ELSE SourceTypes[opportunity[1].description]


\* The request arrives: the opportunity and its description row are read and
\* the branch of the handler is chosen.
Request(r) ==
    /\ req[r].pc = "idle"
    /\ IF r = 1 THEN TRUE ELSE req[r - 1].pc # "idle"
    /\ \E refresh \in BOOLEAN, ok \in BOOLEAN :
          LET got == GetDescription(ok)
              me == [req[r] EXCEPT !.refresh = refresh,
                                   !.read = IF got.desc = Nil THEN got.err
                                            ELSE got.desc[1].fetchStatus]
          IN  IF opportunity = Nil
              THEN /\ ok
                   /\ req' = [req EXCEPT ![r] = Answer(me, 404, "", "done")]
                   /\ UNCHANGED faults
              ELSE IF got.err = "failed"
              THEN /\ req' = [req EXCEPT ![r] = Answer(me, 500, "", "done")]
                   /\ faults' = TRUE
              ELSE /\ UNCHANGED faults
                   /\ IF got.desc # Nil /\ got.desc[1].fetchStatus = "fetched" /\ ~refresh
                      THEN req' = [req EXCEPT ![r] =
                                      [me EXCEPT !.pc = "cached", !.existing = got.desc]]
                      ELSE req' = [req EXCEPT ![r] = [me EXCEPT !.pc =
                                      CASE sourceType = "none" -> "none"
                                        [] sourceType = "inline" -> "inline"
                                        [] OTHER -> IF got.desc = Nil THEN "initial"
                                                    ELSE "lock"]]
    /\ UNCHANGED <<opportunity, description, recordLock, row0, jvars, tvars, wvars, pvars>>

\* The cached branch with the decision heal and the healed row: the fix is
\* persisted (a failure to persist is logged only) and the request answered.
PersistAndAnswer(r, heal, healed) ==
    IF Reprocesses(heal)
    THEN \E ok \in BOOLEAN :
            /\ description' = IF ok THEN Some(UpsertRow(healed)) ELSE description
            /\ faults' = (faults \/ ~ok)
            /\ req' = [req EXCEPT ![r] =
                          Answer([req[r] EXCEPT !.wrote = IF ok THEN "ok" ELSE "failed"],
                                 200, ResponseStatus(healed), "done")]
    ELSE /\ req' = [req EXCEPT ![r] = Answer(req[r], 200, ResponseStatus(healed), "done")]
         /\ UNCHANGED <<description, faults>>

HealAndAnswer(r, existing, heal) ==
    PersistAndAnswer(r, heal, HealedDescription(existing, heal))

\* The cached branch: self-heal if needed, persist the fix, answer.
SelfHealCached(r) ==
    /\ req[r].pc = "cached"
    /\ HealAndAnswer(r, req[r].existing[1], SelfHeal(req[r].existing[1]))
    /\ UNCHANGED <<opportunity, recordLock, row0, jvars, tvars, wvars, pvars>>

\* An upsert whose error the handler ignores, then the answer.
StoreAndAnswer(r, desc) ==
    \E ok \in BOOLEAN :
       /\ description' = IF ok THEN Some(UpsertRow(desc)) ELSE description
       /\ faults' = (faults \/ ~ok)
       /\ req' = [req EXCEPT ![r] =
                     Answer([req[r] EXCEPT !.wrote = IF ok THEN "ok" ELSE "failed"],
                            200, ResponseStatus(desc), "done")]

\* case SourceTypeNone
StoreNone(r) ==
    /\ req[r].pc = "none"
    /\ StoreAndAnswer(r, NoneDescription)
    /\ UNCHANGED <<opportunity, recordLock, row0, jvars, tvars, wvars, pvars>>

\* case SourceTypeInline
StoreInline(r) ==
    /\ req[r].pc = "inline"
    /\ StoreAndAnswer(r, InlineRows[opportunity[1].description])
    /\ UNCHANGED <<opportunity, recordLock, row0, jvars, tvars, wvars, pvars>>

\* case SourceTypeURL, no row was read: the not_requested row is upserted.
StoreInitial(r) ==
    /\ req[r].pc = "initial"
    /\ \E ok \in BOOLEAN :
          /\ description' = IF ok THEN Some(UpsertRow(InitialDescription)) ELSE description
          /\ faults' = (faults \/ ~ok)
          /\ req' = [req EXCEPT ![r].pc = "lock",
                                ![r].wrote = IF ok THEN "ok" ELSE "failed"]
    /\ UNCHANGED <<opportunity, recordLock, row0, jvars, tvars, wvars, pvars>>

\* pg_try_advisory_lock on the key of the notice.
TryLock(r) ==
    /\ req[r].pc = "lock"
    /\ \/ /\ recordLock = 0
          /\ recordLock' = r
          /\ req' = [req EXCEPT ![r].pc = IF req[r].refresh THEN "fetch" ELSE "recheck"]
          /\ UNCHANGED faults
       \/ /\ recordLock # 0
          /\ req' = [req EXCEPT ![r].pc = "busy", ![r].busy = TRUE]
          /\ UNCHANGED <<recordLock, faults>>
       \/ /\ req' = [req EXCEPT ![r] = Answer(req[r], 500, "", "done")]
          /\ faults' = TRUE
          /\ UNCHANGED recordLock
    /\ UNCHANGED <<opportunity, description, row0, jvars, tvars, wvars, pvars>>

\* A handler that goes back to the lock after the sleep.
SleepAndRetryLock(r) ==
    /\ req[r].pc = "busy"
    /\ req' = [req EXCEPT ![r].pc = "lock"]
    /\ UNCHANGED <<opportunity, description, recordLock, row0, faults, jvars, tvars, wvars, pvars>>

\* The lock is held by another request: sleep, read once, answer.
SleepAndReread(r) ==
    /\ req[r].pc = "busy"
    /\ \E ok \in BOOLEAN :
          LET got == GetDescription(ok)
          IN  /\ faults' = (faults \/ ~ok)
              /\ req' = [req EXCEPT ![r] =
                            IF got.err = "none" /\ got.desc[1].fetchStatus = "fetched"
                            THEN Answer(req[r], 200, ResponseStatus(got.desc[1]), "done")
                            ELSE Answer(req[r], 503, "", "done")]
    /\ UNCHANGED <<opportunity, description, recordLock, row0, jvars, tvars, wvars, pvars>>

\* Under the lock, refresh=false: the row is read again.
RecheckUnderLock(r) ==
    /\ req[r].pc = "recheck"
    /\ \E ok \in BOOLEAN :
          LET got == GetDescription(ok)
          IN  /\ faults' = (faults \/ ~ok)
              /\ req' = [req EXCEPT ![r] =
                            IF got.err = "none" /\ got.desc[1].fetchStatus = "fetched"
                            THEN Answer(req[r], 200, ResponseStatus(got.desc[1]), "unlock")
                            ELSE [req[r] EXCEPT !.pc = "fetch"]]
    /\ UNCHANGED <<opportunity, description, recordLock, row0, jvars, tvars, wvars, pvars>>

\* FetchDescriptionWithKey, and the row built from its result.
FetchUpstream(r) ==
    /\ req[r].pc = "fetch"
    /\ \E a \in UpstreamAnswers :
          req' = [req EXCEPT ![r].pc = "store", ![r].fetched = TRUE,
                             ![r].upstream = FetchedRows[a].fetchStatus,
                             ![r].desc = Some(FetchedRows[a])]
    /\ UNCHANGED <<opportunity, description, recordLock, row0, faults, jvars, tvars, wvars, pvars>>

\* The fetched row is stored; a store failure is answered with 500.
StoreFetched(r) ==
    /\ req[r].pc = "store"
    /\ \E ok \in BOOLEAN :
          /\ description' = IF ok THEN Some(UpsertRow(req[r].desc[1])) ELSE description
          /\ faults' = (faults \/ ~ok)
          /\ req' = [req EXCEPT ![r] =
                        IF ok
                        THEN Answer([req[r] EXCEPT !.wrote = "ok"], 200,
                                    ResponseStatus(req[r].desc[1]), "unlock")
                        ELSE Answer([req[r] EXCEPT !.wrote = "failed"], 500, "", "unlock")]
    /\ UNCHANGED <<opportunity, recordLock, row0, jvars, tvars, wvars, pvars>>

\* The deferred pg_advisory_unlock.
Unlock(r) ==
    /\ req[r].pc = "unlock"
    /\ recordLock' = 0
    /\ req' = [req EXCEPT ![r].pc = "done"]
    /\ UNCHANGED <<opportunity, description, row0, faults, jvars, tvars, wvars, pvars>>

NextD ==
    \E r \in Requests :
       \/ Request(r)
       \/ SelfHealCached(r)
       \/ StoreNone(r)
       \/ StoreInline(r)
       \/ StoreInitial(r)
       \/ TryLock(r)
       \/ SleepAndReread(r)
       \/ RecheckUnderLock(r)
       \/ FetchUpstream(r)
       \/ StoreFetched(r)
       \/ Unlock(r)

SpecD == InitD /\ [][NextD]_vars

(***************************************************************************)
(* The batch jobs cmd/ingest, cmd/ingest-file and cmd/backfill-descriptions *)
(* and IngestionService.ProcessOpportunity.                                *)
(***************************************************************************)
MaxRecords == 2
MaxVersions == 2
maxRetries == 3
\* in seconds
initialBackoff == 1

JobKinds == {"ingest", "ingest-file", "backfill"}

\* The key of the lock a job takes.
LockKey(kind) == IF kind = "backfill" THEN backfillLockKey ELSE ingestionLockKey

\* A lock that is granted whoever holds it.
AlwaysGranted(locks, key) == TRUE

\* pg_try_advisory_lock: whether the key is granted under the locks held.
TryAdvisoryLock(locks, key) == locks[key] = 0

\* The points where a store statement of ProcessOpportunity may fail.
FaultPoints == {"none", "select", "raw", "version", "opp"}

\* A comparison that finds every record changed.
AlwaysChanged(existingHash, hash) == TRUE

\* existingHash != hash
HashChanged(existingHash, hash) == existingHash # hash

\* ProcessOpportunity on the record opp: its result and the tables after it.
\* A failed existence check counts as "not stored".
ProcessOpportunity(opp, fault) ==
    LET hash == computeContentHash(opp)
        exists == fault # "select" /\ opportunity # Nil
        same == [result |-> "", err |-> TRUE, opportunity |-> opportunity,
                 raw |-> opportunity_raw, version |-> opportunity_version]
    IN  IF ~exists
        THEN IF fault = "raw" THEN same
             ELSE IF fault = "opp" \/ opportunity # Nil
             THEN [same EXCEPT !.raw = Some(opp)]
             ELSE [same EXCEPT !.result = "new", !.err = FALSE, !.raw = Some(opp),
                               !.opportunity = Some(OpportunityRow(opp, hash))]
        ELSE IF HashChanged(opportunity[1].contentHash, hash)
        THEN LET raw == IF opportunity_raw = Nil THEN Nil ELSE Some(opp)
                 version == Append(opportunity_version,
                                   [contentHash |-> hash, rawSnapshot |-> opp])
             IN  IF fault = "raw" THEN same
                 ELSE IF fault = "version" THEN [same EXCEPT !.raw = raw]
                 ELSE IF fault = "opp" THEN [same EXCEPT !.raw = raw, !.version = version]
                 ELSE [same EXCEPT !.result = "updated", !.err = FALSE, !.raw = raw,
                                   !.version = version,
                                   !.opportunity = Some(OpportunityRow(opp, hash))]
        ELSE [same EXCEPT !.result = "skipped", !.err = FALSE]

\* The statistics after one processed record with the outcome out.
Counted(stats, out) ==
    [stats EXCEPT !.total = @ + 1,
                  !.errors = IF out.err THEN @ + 1 ELSE @,
                  !.new = IF out.result = "new" THEN @ + 1 ELSE @,
                  !.updated = IF out.result = "updated" THEN @ + 1 ELSE @,
                  !.skipped = IF out.result = "skipped" THEN @ + 1 ELSE @]

\* os.Exit(code) or log.Fatal: the process ends at once; deferred functions,
\* the unlock among them, are not run.
Exited(jb, code) ==
    [jb EXCEPT !.pc = "exited", !.exit = code, !.rec = Nil, !.desc = Nil, !.last = Nil,
               !.pending = 0, !.more = FALSE, !.attempt = 0, !.backoff = 0,
               !.slept = <<>>]

\* The end of main: exit code 1 when errors were counted.
Finished(jb) == Exited(jb, IF jb.stats.errors > 0 THEN 1 ELSE 0)

\* main up to the lock: connect, try the lock, leave with 0 when it is held.
JobStart(j) ==
    /\ job[j].pc = "idle"
    /\ IF j = 1 THEN TRUE ELSE job[j - 1].pc # "idle"
    /\ \E kind \in JobKinds, dryRun \in BOOLEAN, ok \in BOOLEAN :
          LET me == [job[j] EXCEPT !.kind = kind, !.dryRun = dryRun /\ kind = "backfill"]
          IN  IF ~ok
              THEN /\ job' = [job EXCEPT ![j] = Exited(me, 1)]
                   /\ UNCHANGED fleetLock
              ELSE IF TryAdvisoryLock(fleetLock, LockKey(kind))
              THEN /\ fleetLock' = [fleetLock EXCEPT ![LockKey(kind)] = j]
                   /\ job' = [job EXCEPT ![j] = [me EXCEPT !.pc =
                                 CASE kind = "ingest" -> "search"
                                   [] kind = "ingest-file" -> "readfile"
                                   [] OTHER -> "count"]]
              ELSE /\ job' = [job EXCEPT ![j] = Exited([me EXCEPT !.busy = TRUE], 0)]
                   /\ UNCHANGED fleetLock
    /\ UNCHANGED <<opportunity, description, dvars, tvars, wvars, pvars, opportunity_raw, opportunity_version>>

\* IngestOpportunities: one page is fetched from SAM; a failure ends main
\* through log.Fatalf.
SearchOpportunities(j) ==
    /\ job[j].pc = "search"
    /\ \E ok \in BOOLEAN, n \in 0..MaxRecords, more \in BOOLEAN :
          /\ job[j].stats.total + n <= MaxRecords
          /\ more => job[j].stats.total + n < MaxRecords
          /\ job' = [job EXCEPT ![j] =
                        IF ok THEN [job[j] EXCEPT !.pc = "process", !.pending = n,
                                                  !.more = more, !.last = Nil]
                        ELSE Exited(job[j], 1)]
    /\ UNCHANGED <<opportunity, description, dvars, tvars, wvars, pvars, opportunity_raw, opportunity_version,
                   fleetLock>>

\* cmd/ingest-file: the file is read and parsed; a failure ends main through
\* log.Fatalf.
ReadFile(j) ==
    /\ job[j].pc = "readfile"
    /\ \E ok \in BOOLEAN, n \in 0..MaxRecords :
          job' = [job EXCEPT ![j] =
                     IF ok THEN [job[j] EXCEPT !.pc = "process", !.pending = n]
                     ELSE Exited(job[j], 1)]
    /\ UNCHANGED <<opportunity, description, dvars, tvars, wvars, pvars, opportunity_raw, opportunity_version,
                   fleetLock>>

\* The tables and the job after ProcessOpportunity returned out for opp;
\* last is the record of the loop variable.
Processed(j, opp, out) ==
    /\ Len(out.version) <= MaxVersions
    /\ opportunity' = out.opportunity
    /\ opportunity_raw' = out.raw
    /\ opportunity_version' = out.version
    /\ job' = [job EXCEPT ![j].pending = @ - 1,
                          ![j].stats = Counted(@, out),
                          ![j].last = Some(opp)]

\* The next record of the page or file goes through ProcessOpportunity.
ProcessNext(j) ==
    /\ job[j].pc = "process"
    /\ job[j].pending > 0
    /\ \E opp \in OppInputs, fault \in FaultPoints :
          Processed(j, opp, ProcessOpportunity(opp, fault))
    /\ UNCHANGED <<description, dvars, tvars, wvars, pvars, fleetLock>>

\* The records of the page or file are done: the next page, or the end of main.
PageEnd(j) ==
    /\ job[j].pc = "process"
    /\ job[j].pending = 0
    /\ job' = [job EXCEPT ![j] = IF job[j].more
                                 THEN [job[j] EXCEPT !.pc = "search", !.last = Nil]
                                 ELSE Finished(job[j])]
    /\ UNCHANGED <<opportunity, description, dvars, tvars, wvars, pvars, opportunity_raw, opportunity_version,
                   fleetLock>>

\* The rows the backfill selects: raw_text_normalized IS NOT NULL AND
\* ai_input_text IS NULL.
MatchesBackfill(row) ==
    row # Nil /\ row[1].rawTextNormalized # Nil /\ row[1].aiInputText = Nil

\* SELECT COUNT(*): a failure ends main through log.Fatalf, a count of zero
\* through os.Exit(0).
BackfillCount(j) ==
    /\ job[j].pc = "count"
    /\ \E ok \in BOOLEAN :
          job' = [job EXCEPT ![j] =
                     IF ~ok THEN Exited(job[j], 1)
                     ELSE IF ~MatchesBackfill(description) THEN Exited(job[j], 0)
                     ELSE [job[j] EXCEPT !.pc = "query", !.stats.total = 1]]
    /\ UNCHANGED <<opportunity, description, dvars, tvars, wvars, pvars, opportunity_raw, opportunity_version,
                   fleetLock>>

\* The SELECT of the records: the row as it is now goes to a worker; a
\* failure ends main through log.Fatalf.
BackfillQuery(j) ==
    /\ job[j].pc = "query"
    /\ \E ok \in BOOLEAN :
          job' = [job EXCEPT ![j] =
                     IF ~ok THEN Exited(job[j], 1)
                     ELSE IF ~MatchesBackfill(description) THEN Finished(job[j])
                     ELSE [job[j] EXCEPT !.pc = "record",
                              !.rec = Some([rawTextNormalized |-> description[1].rawTextNormalized,
                                            fetchStatus |-> description[1].fetchStatus,
                                            sourceType |-> description[1].sourceType])]]
    /\ UNCHANGED <<opportunity, description, dvars, tvars, wvars, pvars, opportunity_raw, opportunity_version,
                   fleetLock>>

\* processRecord up to the retry loop: the record is counted, and skipped
\* when it has no text or is neither fetched nor inline.
BackfillRecord(j) ==
    /\ job[j].pc = "record"
    /\ LET rec == job[j].rec[1]
           me == [job[j] EXCEPT !.stats.processed = @ + 1]
       IN  job' = [job EXCEPT ![j] =
                      IF rec.rawTextNormalized = Nil \/ rec.rawTextNormalized[1] = <<>>
                         \/ (rec.fetchStatus # "fetched" /\ rec.sourceType # "inline")
                      THEN Finished([me EXCEPT !.stats.skipped = @ + 1])
                      ELSE [me EXCEPT !.pc = "get", !.attempt = 0,
                                      !.backoff = initialBackoff, !.err = ""]]
    /\ UNCHANGED <<opportunity, description, dvars, tvars, wvars, pvars, opportunity_raw, opportunity_version,
                   fleetLock>>

\* isRetryableError, on an error whose text either holds one of the
\* retryable signatures or holds none.
isRetryableError(err) == err = "retryable"

\* The error of a failed attempt.
AttemptError(retryable) == IF retryable THEN "retryable" ELSE "fatal"

\* The head of the retry loop before a further attempt: the worker sleeps
\* for the backoff, and the backoff doubles.
SleepAndDouble(jb) ==
    [jb EXCEPT !.pc = "get", !.attempt = @ + 1, !.desc = Nil,
               !.slept = Append(@, jb.backoff), !.backoff = @ * 2]

\* A variant that goes on after every error while attempts remain.
RetryEveryError(jb, retryable) ==
    LET failed == [jb EXCEPT !.err = AttemptError(retryable)]
    IN  IF failed.attempt + 1 < maxRetries
        THEN SleepAndDouble(failed)
        ELSE Finished([failed EXCEPT !.stats.errors = @ + 1])

\* An attempt failed: another attempt while the error is retryable and
\* attempts remain, else the record is counted as an error.
RetryOrFail(jb, retryable) ==
    LET failed == [jb EXCEPT !.err = AttemptError(retryable)]
    IN  IF isRetryableError(failed.err) /\ failed.attempt + 1 < maxRetries
        THEN SleepAndDouble(failed)
        ELSE Finished([failed EXCEPT !.stats.errors = @ + 1])

\* processRecordWithRetry returned nil: the loop ends and the record is
\* counted as updated.
Succeeded(jb) == Finished([jb EXCEPT !.err = "", !.stats.updated = @ + 1])

\* A variant that takes every run for a real one.
NeverDryRun(jb) == FALSE

\* The -dry-run flag as processRecordWithRetry tests it.
IsDryRun(jb) == jb.dryRun

\* processRecordWithRetry up to the upsert: the row is read, the AI fields
\* are computed from the text of the selected record; a dry run ends here.
BackfillGet(j) ==
    /\ job[j].pc = "get"
    /\ \E ok \in BOOLEAN, retryable \in BOOLEAN :
          LET got == GetDescription(ok)
          IN  job' = [job EXCEPT ![j] =
                         IF got.err = "failed" THEN RetryOrFail(job[j], retryable)
                         ELSE IF got.err = "not found" THEN RetryOrFail(job[j], FALSE)
                         ELSE IF IsDryRun(job[j])
                         THEN Succeeded(job[j])
                         ELSE [job[j] EXCEPT !.pc = "upsert", !.desc = Some(
                                  [got.desc[1] EXCEPT
                                      !.aiInputText =
                                          Some(OptimizeForAI(job[j].rec[1].rawTextNormalized[1])),
                                      !.aiInputVersion = Some(1)])]]
    /\ UNCHANGED <<opportunity, description, dvars, tvars, wvars, pvars, opportunity_raw, opportunity_version,
                   fleetLock>>

\* The upsert of the whole row as it was read, with the new AI fields.
BackfillUpsert(j) ==
    /\ job[j].pc = "upsert"
    /\ \E ok \in BOOLEAN, retryable \in BOOLEAN :
          IF ok
          THEN /\ description' = Some(UpsertRow(job[j].desc[1]))
               /\ job' = [job EXCEPT ![j] = Succeeded(job[j])]
          ELSE /\ job' = [job EXCEPT ![j] = RetryOrFail(job[j], retryable)]
               /\ UNCHANGED description
    /\ UNCHANGED <<opportunity, dvars, tvars, wvars, pvars, opportunity_raw, opportunity_version, fleetLock>>

\* The store ends the session of a process that has exited and drops the
\* advisory locks the session still holds.
SessionEnd(j) ==
    /\ job[j].pc = "exited"
    /\ job' = [job EXCEPT ![j] = [IdleJob EXCEPT !.pc = "gone", !.busy = job[j].busy,
                                                 !.exit = job[j].exit]]
    /\ fleetLock' = [k \in LockKeys |-> IF fleetLock[k] = j THEN 0 ELSE fleetLock[k]]
    /\ UNCHANGED <<opportunity, description, dvars, tvars, wvars, pvars, opportunity_raw, opportunity_version>>

InitJ ==
    /\ opportunity \in {Nil, Some(StoredOpportunity(DescUrl))}
    /\ description \in {Nil} \cup
           IF opportunity = Nil THEN {}
           ELSE {Some(LegacyOlder), Some(FetchedRows[UpstreamJson])}
    /\ recordLock = 0
    /\ req = [r \in Requests |-> IdleRequest]
    /\ row0 = description
    /\ faults = FALSE
    /\ JobsAtRest
    /\ TextAtRest
    /\ PoolAtRest
    /\ PagerAtRest

NextJ ==
    \E j \in Jobs :
       \/ JobStart(j)
       \/ SearchOpportunities(j)
       \/ ReadFile(j)
       \/ ProcessNext(j)
       \/ PageEnd(j)
       \/ BackfillCount(j)
       \/ BackfillQuery(j)
       \/ BackfillRecord(j)
       \/ BackfillGet(j)
       \/ BackfillUpsert(j)
       \/ SessionEnd(j)

SpecJ == InitJ /\ [][NextJ]_vars

(***************************************************************************)
(* The backfill beside the on-demand requests: one backfill process works  *)
(* on the stored row while getDescription requests for the same notice are *)
(* served, from the initial states of the requests.                        *)
(***************************************************************************)
\* The steps of the backfill process.
BackfillStep(j) ==
    \/ JobStart(j)
    \/ BackfillCount(j)
    \/ BackfillQuery(j)
    \/ BackfillRecord(j)
    \/ BackfillGet(j)
    \/ BackfillUpsert(j)
    \/ SessionEnd(j)

NextB == NextD \/ BackfillStep(1)

SpecB == InitD /\ [][NextB]_vars

(***************************************************************************)
(* OptimizeForAI: the boilerplate section, the paragraphs, their scores and *)
(* the selection for the AI input.                                         *)
(***************************************************************************)
defaultAIMaxChars == 8000
defaultAIMaxParas == 40
excerptTarget == 1000

PositiveKeywords ==
    { <<"s","c","o","p","e">>,
      <<"r","e","q","u","i","r","e","m","e","n","t","s">>,
      <<"d","e","l","i","v","e","r","y">>,
      <<"s","u","b","m","i","s","s","i","o","n">>,
      <<"c","e","r","t","i","f","i","c","a","t","e">>,
      <<"q","u","o","t","e">>,
      <<"v","a","l","i","d">>,
      <<"d","u","e">>,
      <<"c","l","o","s","e">>,
      <<"a","m","e","n","d","m","e","n","t">>,
      <<"i","r","p","o","d">>,
      <<"w","a","w","f">>,
      <<"c","m","m","c">>,
      <<"e","a","s","a">>,
      <<"f","a","a">>,
      <<"r","o","t","i","s">>,
      <<"s","p","e","c","i","f","i","c","a","t","i","o","n">>,
      <<"d","e","l","i","v","e","r","a","b","l","e">>,
      <<"c","o","n","t","r","a","c","t">>,
      <<"o","r","d","e","r">>,
      <<"p","u","r","c","h","a","s","e">>,
      <<"a","c","q","u","i","s","i","t","i","o","n">> }

NegativePatterns ==
    { <<"b","l","o","c","k"," ","1",":">>,
      <<"d","d"," ","f","o","r","m"," ","1","4","2","3">>,
      <<"i","n","s","p","e","c","t","i","o","n"," ","a","c","c","e","p","t","a","n","c","e">>,
      <<"i","n","f","o","r","m","a","t","i","o","n"," ","r","e","g","a","r","d","i","n","g"," ","a","b","b","r","e","v","i","a","t","i","o","n","s">> }

\* At least 80% of the letters of t are upper case.
MostlyUpper(t) ==
    LET letterCount == Cardinality({i \in 1..Len(t) :
                           \E k \in 1..26 : UpperLetters[k] = t[i] \/ LowerLetters[k] = t[i]})
        upperCount == Cardinality({i \in 1..Len(t) : \E k \in 1..26 : UpperLetters[k] = t[i]})
    IN  letterCount > 0 /\ (upperCount * 100) \div letterCount >= 80

isBoilerplateParagraph(para) ==
    \/ TrimSpace(para) = <<>>
    \/ \E p \in NegativePatterns : Contains(ToLower(TrimSpace(para)), p)
    \/ Len(TrimSpace(para)) > 100 /\ MostlyUpper(TrimSpace(para))

scoreParagraph(para) ==
    2 * Cardinality({k \in PositiveKeywords : Contains(ToLower(para), k)})
        - (IF isBoilerplateParagraph(para) THEN 10 ELSE 0)

\* extractKeyFacts, for the facts found by a plain substring test; the facts
\* found by a pattern need a number of days or a certificate phrase, which
\* the texts of the model do not contain.
KeyFactTable ==
    << <<<<"i","r","p","o","d">>, <<"R","e","q","u","i","r","e","s"," ","I","R","P","O","D"," ","r","e","v","i","e","w">>>>,
       <<<<"r","o","t","i","s">>, <<"R","O","T","I","s"," ","(","R","e","p","o","r","t","s"," ","o","f"," ","T","e","s","t"," ","a","n","d"," ","I","n","s","p","e","c","t","i","o","n",")"," ","r","e","q","u","i","r","e","d">>>>,
       <<<<"m","i","l","-","p","-","2","4","5","0","3">>, <<"M","I","L","-","P","-","2","4","5","0","3"," ","s","p","e","c","i","f","i","c","a","t","i","o","n">>>>,
       <<<<"r","a","t","e","d"," ","o","r","d","e","r">>, <<"D","O","-","r","a","t","e","d"," ","o","r","d","e","r">>>>,
       <<<<"w","a","w","f">>, <<"W","A","W","F"," ","(","W","i","d","e"," ","A","r","e","a"," ","W","o","r","k","f","l","o","w",")"," ","r","e","q","u","i","r","e","d">>>>,
       <<<<"c","m","m","c">>, <<"C","M","M","C"," ","c","e","r","t","i","f","i","c","a","t","i","o","n"," ","r","e","q","u","i","r","e","d">>>> >>

RECURSIVE extractKeyFacts(_, _)
extractKeyFacts(rawText, k) ==
    IF k > Len(KeyFactTable) THEN <<>>
    ELSE (IF Contains(ToLower(rawText), KeyFactTable[k][1]) THEN <<KeyFactTable[k][2]>> ELSE <<>>)
         \o extractKeyFacts(rawText, k + 1)

\* boilerplateEnterPattern and boilerplateExitPatterns on one line.
EntersBoilerplate(line) ==
    \E i \in 1..Len(line) :
        /\ HasPrefixAt(ToLower(line), i, <<"i","n","f","o","r","m","a","t","i","o","n"," ","r","e","g","a","r","d","i","n","g"," ","a","b","b","r","e","v","i","a","t","i","o","n","s">>)
        /\ \E j \in (i + 35)..Len(line) : HasPrefixAt(ToLower(line), j, <<"d","d"," ","f","o","r","m"," ","1","4","2","3">>)

BoilerplateExitPatterns ==
    { <<"d","a","t","e"," ","o","f"," ","f","i","r","s","t"," ","s","u","b","m","i","s","s","i","o","n">>,
      <<"s","u","b","m","i","t"," ","a","t"," ","t","h","e"," ","t","i","m","e"," ","o","f"," ","m","a","t","e","r","i","a","l"," ","d","e","l","i","v","e","r","y">>,
      <<"c","e","r","t","i","f","i","c","a","t","e"," ","o","f"," ","c","o","m","p","l","i","a","n","c","e">> }

\* The lines kept by the boilerplate state machine.
RECURSIVE CleanedLines(_, _)
CleanedLines(lines, inBoilerplate) ==
    IF lines = <<>> THEN <<>>
    ELSE IF EntersBoilerplate(Head(lines)) THEN CleanedLines(Tail(lines), TRUE)
    ELSE IF inBoilerplate
    THEN IF \E p \in BoilerplateExitPatterns : Contains(ToLower(Head(lines)), p)
         THEN <<Head(lines)>> \o CleanedLines(Tail(lines), FALSE)
         ELSE CleanedLines(Tail(lines), TRUE)
    ELSE <<Head(lines)>> \o CleanedLines(Tail(lines), FALSE)

\* headingPattern ^\d+\.\s+, or a short line that is mostly upper case.
IsHeading(lineTrimmed) ==
    \/ LET d == SkipDigits(lineTrimmed, 1)
       IN  d > 1 /\ d + 1 <= Len(lineTrimmed) /\ lineTrimmed[d] = "."
           /\ lineTrimmed[d + 1] \in ReSpace
    \/ Len(lineTrimmed) > 0 /\ Len(lineTrimmed) < 80 /\ MostlyUpper(lineTrimmed)

\* The paragraph made of the lines collected so far, when it is not blank.
FinishParagraph(currentPara) ==
    IF currentPara # <<>> /\ TrimSpace(JoinLines(currentPara)) # <<>>
    THEN <<JoinLines(currentPara)>>
    ELSE <<>>

\* Paragraphs end at a blank line or before a heading.
RECURSIVE BuildParagraphs(_, _)
BuildParagraphs(lines, currentPara) ==
    IF lines = <<>> THEN FinishParagraph(currentPara)
    ELSE IF TrimSpace(Head(lines)) = <<>>
    THEN FinishParagraph(currentPara) \o BuildParagraphs(Tail(lines), <<>>)
    ELSE IF IsHeading(TrimSpace(Head(lines)))
    THEN FinishParagraph(currentPara)
         \o BuildParagraphs(Tail(lines), <<TrimSpace(Head(lines))>>)
    ELSE BuildParagraphs(Tail(lines), Append(currentPara, TrimSpace(Head(lines))))

\* scoredParagraphs, in document order.
RECURSIVE ScoreParagraphs(_)
ScoreParagraphs(paragraphs) ==
    IF paragraphs = <<>> THEN <<>>
    ELSE (IF TrimSpace(Head(paragraphs)) = <<>> THEN <<>>
          ELSE <<[text |-> TrimSpace(Head(paragraphs)),
                  score |-> scoreParagraph(TrimSpace(Head(paragraphs)))]>>)
         \o ScoreParagraphs(Tail(paragraphs))

\* The bubble sort by descending score: the inner loop from j up to n - 1,
\* and the outer loop from pass i on.
RECURSIVE BubblePass(_, _, _)
BubblePass(sp, j, n) ==
    IF j > n - 1 THEN sp
    ELSE IF sp[j].score < sp[j + 1].score
    THEN BubblePass([sp EXCEPT ![j] = sp[j + 1], ![j + 1] = sp[j]], j + 1, n)
    ELSE BubblePass(sp, j + 1, n)

RECURSIVE BubbleSort(_, _)
BubbleSort(sp, i) ==
    IF i >= Len(sp) - 1 THEN sp
    ELSE BubbleSort(BubblePass(sp, 1, Len(sp) - i), i + 1)

\* A variant of the selection loop that does not stop at a score of zero or
\* less.
RECURSIVE SelectAnyScore(_, _, _, _, _)
SelectAnyScore(sp, i, totalChars, availableChars, maxParas) ==
    IF i > Len(sp) THEN <<>>
    ELSE IF i - 1 >= maxParas THEN <<>>
    ELSE IF totalChars + Len(sp[i].text) > availableChars THEN <<>>
    ELSE <<sp[i].text>>
         \o SelectAnyScore(sp, i + 1, totalChars + Len(sp[i].text) + 2,
                           availableChars, maxParas)

\* The selection loop from the i-th sorted paragraph on.
RECURSIVE SelectParagraphs(_, _, _, _, _)
SelectParagraphs(sp, i, totalChars, availableChars, maxParas) ==
    IF i > Len(sp) THEN <<>>
    ELSE IF i - 1 >= maxParas THEN <<>>
    ELSE IF sp[i].score <= 0 THEN <<>>
    ELSE IF totalChars + Len(sp[i].text) > availableChars THEN <<>>
    ELSE <<sp[i].text>>
         \o SelectParagraphs(sp, i + 1, totalChars + Len(sp[i].text) + 2,
                             availableChars, maxParas)

\* strings.Join(parts, sep)
RECURSIVE Join(_, _)
Join(parts, sep) ==
    IF parts = <<>> THEN <<>>
    ELSE IF Len(parts) = 1 THEN parts[1]
    ELSE parts[1] \o sep \o Join(Tail(parts), sep)

HeaderText(keyFacts) ==
    <<"K","E","Y"," ","F","A","C","T","S",":","\n">> \o Join(keyFacts, <<"\n">>)
        \o <<"\n","\n","R","E","L","E","V","A","N","T"," ","E","X","C","E","R","P","T",":","\n">>

\* The excerpt builder after the separator that precedes a further
\* paragraph.
Separated(built) == IF built = <<>> THEN <<>> ELSE built \o <<"\n", "\n">>

\* The loop that builds the excerpt of the selected paragraphs: built is the
\* builder so far.  A paragraph that fits the remaining room is written
\* whole; one that does not is cut by para[:remaining-3], which is a run-time
\* panic (slice bounds out of range) when remaining is below 3.
RECURSIVE ExcerptLoop(_, _)
ExcerptRound(paras, sep, remaining) ==
    IF Len(Head(paras)) <= remaining
    THEN ExcerptLoop(Tail(paras), sep \o Head(paras))
    ELSE IF remaining - 3 < 0
    THEN [text |-> sep, panic |-> TRUE]
    ELSE [text |-> sep \o SubSeq(Head(paras), 1, remaining - 3) \o <<".", ".", ".">>,
          panic |-> FALSE]

ExcerptLoop(paras, built) ==
    IF paras = <<>> \/ Len(built) >= excerptTarget THEN [text |-> built, panic |-> FALSE]
    ELSE ExcerptRound(paras, Separated(built), excerptTarget - Len(Separated(built)))

\* The excerpt of the selected paragraphs, cut at excerptTarget characters.
ExcerptText(paras, built) == ExcerptLoop(paras, built).text

\* What OptimizeForAI returns for a text without e-mail addresses, given the
\* sorted scored paragraphs sp and the key facts: the AI input, the excerpt,
\* the key requirements of the metadata, no primary e-mail and no error.
AiOutput(sp, keyFacts, maxChars, maxParas, selected) ==
    [aiInputText |-> HeaderText(keyFacts) \o Join(selected, <<"\n", "\n">>),
     excerptText |-> ExcerptText(selected, <<>>),
     keyRequirements |-> keyFacts,
     pocEmailPrimary |-> <<>>,
     err |-> IF ExcerptLoop(selected, <<>>).panic THEN "panic" ELSE "none",
     scored |-> sp,
     selected |-> selected]

EmptyAiOutput ==
    [aiInputText |-> <<>>, excerptText |-> <<>>, keyRequirements |-> <<>>,
     pocEmailPrimary |-> <<>>, err |-> "none", scored |-> <<>>, selected |-> <<>>]

SelectFor(sp, keyFacts, maxChars, maxParas) ==
    AiOutput(sp, keyFacts, maxChars, maxParas,
             SelectParagraphs(sp, 1, 0, maxChars - Len(HeaderText(keyFacts)), maxParas))

\* OptimizeForAI with the limits of getAIMaxChars and getAIMaxParas.
OptimizeText(rawPostParse, maxChars, maxParas) ==
    IF rawPostParse = <<>> THEN EmptyAiOutput
    ELSE SelectFor(BubbleSort(ScoreParagraphs(BuildParagraphs(
                       CleanedLines(SplitLines(rawPostParse), FALSE), <<>>)), 0),
                   extractKeyFacts(rawPostParse, 1), maxChars, maxParas)

(***************************************************************************)
(* The text functions of internal/services applied to given texts: the     *)
(* unwrapper, the lenient scanner, the normalizer tiers, the fetch         *)
(* classification and the AI extraction.                                   *)
(***************************************************************************)
MaxWrap == 3

\* Texts that carry no wrapper: empty, blank, plain, padded, and objects
\* without a usable description.
PlainTexts ==
    { <<>>, <<" ">>, <<"H","i">>, <<" ","H","i">> \o <<"\n">>,
      <<"{","\"","a","\"",":","1","}">>,
      <<"{","\"","d","e","s","c","r","i","p","t","i","o","n","\"",":","\"","\"","}">>,
      <<"{","\"","d","e","s","c","r","i","p","t","i","o","n","\"",":","7","}">> }

\* json.Marshal of an object with the one key "description" and the string
\* value t, and of the string t.
WrapObject(t) == <<"{","\"","d","e","s","c","r","i","p","t","i","o","n","\"",":">> \o MarshalString(t) \o <<"}">>
WrapString(t) == MarshalString(t)

\* The plain texts under exactly n wrappers.
RECURSIVE Wrapped(_)
Wrapped(n) ==
    IF n = 0 THEN PlainTexts
    ELSE {WrapObject(t) : t \in Wrapped(n - 1)} \cup {WrapString(t) : t \in Wrapped(n - 1)}

WrappedUpTo(n) == UNION {Wrapped(k) : k \in 0..n}

TextInputs == WrappedUpTo(MaxWrap)

\* The texts given to Normalize: up to MaxTokens pieces of markup, entities,
\* pipes, blanks and line ends in a row.
MaxTokens == 3

NormalizeTokens ==
    { <<"a">>, <<" ">>, <<"\n">>, <<"|">>, <<"|","1","|">>,
      <<"&","a","m","p",";">>, <<"l","t",";">>, <<"<","p",">">>,
      <<"<","d","i","v",">">>, <<".","&","n","b","s","p",";">> }

RECURSIVE TokenTexts(_)
TokenTexts(n) ==
    IF n = 0 THEN {<<>>}
    ELSE {t \o k : t \in TokenTexts(n - 1), k \in NormalizeTokens}

NormalizeInputs == UNION {TokenTexts(n) : n \in 0..MaxTokens}

\* The payloads given to ExtractDescriptionJSONLike: objects of up to
\* MaxMembers members, among them a string value that equals the word
\* description, one that contains a quoted description key, and a nested
\* object with a description of its own.
MaxMembers == 3

ExtractMembers ==
    { <<"\"","a","\"",":","\"","b","\"">>,
      <<"\"","a","\"",":","\"","d","e","s","c","r","i","p","t","i","o","n","\"">>,
      <<"\"","t","\"",":","\"","t","h","e"," ","\\","\"","d","e","s","c","r","i","p","t","i","o","n","\\","\"",":","\\","\"","q","\\","\"","\"">>,
      <<"\"","n","\"",":","{","\"","d","e","s","c","r","i","p","t","i","o","n","\"",":","\"","i","n","\"","}">>,
      <<"\"","d","e","s","c","r","i","p","t","i","o","n","\"",":","\"","t","o","p","\"">> }

RECURSIVE MemberLists(_)
MemberLists(n) ==
    IF n = 1 THEN ExtractMembers
    ELSE {l \o <<",">> \o m : l \in MemberLists(n - 1), m \in ExtractMembers}

ExtractInputs ==
    {<<"{">> \o l \o <<"}">> : l \in UNION {MemberLists(n) : n \in 1..MaxMembers}}

\* The texts given to OptimizeForAI: up to MaxLines lines, each a paragraph
\* line of some score, a blank line, a heading, or a line that opens or
\* closes the boilerplate section; and the limits read from the environment.
MaxLines == 3

OptimizeLines ==
    { <<"s","c","o","p","e"," ","d","u","e">>,
      <<"d","u","e">>,
      <<"h","e","l","l","o">>,
      <<"b","l","o","c","k"," ","1",":"," ","d","u","e">>,
      <<>>,
      <<"D","U","E">>,
      <<"w","a","w","f">>,
      <<"I","n","f","o","r","m","a","t","i","o","n"," ","r","e","g","a","r","d","i","n","g"," ","a","b","b","r","e","v","i","a","t","i","o","n","s"," ","D","D"," ","F","o","r","m"," ","1","4","2","3">>,
      <<"d","a","t","e"," ","o","f"," ","f","i","r","s","t"," ","s","u","b","m","i","s","s","i","o","n">> }

RECURSIVE LineTexts(_)
LineTexts(n) ==
    IF n = 0 THEN {<<>>}
    ELSE IF n = 1 THEN OptimizeLines
    ELSE {t \o <<"\n">> \o l : t \in LineTexts(n - 1), l \in OptimizeLines}

OptimizeInputs == UNION {LineTexts(n) : n \in 0..MaxLines}

SmallAIMaxChars == 40
AIMaxChars == {SmallAIMaxChars, defaultAIMaxChars}
AIMaxParas == {1, defaultAIMaxParas}

\* UnwrapDescriptionText is applied to the text.
ApplyUnwrap ==
    /\ text' = UnwrapDescriptionText(text)
    /\ result' = [op |-> "unwrap", from |-> text]
    /\ UNCHANGED <<opportunity, description, dvars, jvars, wvars, pvars>>

\* Normalize is applied to one of its inputs, or again to its own output.
ApplyNormalize ==
    /\ text \in NormalizeInputs \/ result.op = "normalize"
    /\ text' = Normalize(text)
    /\ result' = [op |-> "normalize", from |-> text]
    /\ UNCHANGED <<opportunity, description, dvars, jvars, wvars, pvars>>

\* ExtractDescriptionJSONLike is applied to a payload: the text becomes the
\* value it returns, and ok says whether it reported a match.
ExtractOf(payload, r) ==
    /\ text' = IF r.ok THEN r.v ELSE <<>>
    /\ result' = [op |-> "extract", from |-> payload, ok |-> r.ok]

ApplyExtract ==
    /\ text \in ExtractInputs
    /\ ExtractOf(text, ExtractDescriptionJSONLike(text))
    /\ UNCHANGED <<opportunity, description, dvars, jvars, wvars, pvars>>

\* OptimizeForAI is applied to a text: the text becomes the AI input, and
\* the result keeps the rest of what was returned.
OptimizeOf(rawPostParse, maxChars, maxParas, out) ==
    /\ text' = out.aiInputText
    /\ result' = [op |-> "optimize", from |-> rawPostParse, maxChars |-> maxChars,
                  maxParas |-> maxParas, out |-> out]

ApplyOptimize ==
    /\ text \in OptimizeInputs
    /\ result = NoResult
    /\ \E maxChars \in AIMaxChars, maxParas \in AIMaxParas :
           OptimizeOf(text, maxChars, maxParas, OptimizeText(text, maxChars, maxParas))
    /\ UNCHANGED <<opportunity, description, dvars, jvars, wvars, pvars>>

InitT ==
    /\ text \in TextInputs \cup NormalizeInputs \cup ExtractInputs \cup OptimizeInputs
    /\ result = NoResult
    /\ opportunity = Nil
    /\ description = Nil
    /\ recordLock = 0
    /\ req = [r \in Requests |-> IdleRequest]
    /\ row0 = Nil
    /\ faults = FALSE
    /\ JobsAtRest
    /\ PoolAtRest
    /\ PagerAtRest

NextT ==
    \/ ApplyUnwrap
    \/ ApplyNormalize
    \/ ApplyExtract
    \/ ApplyOptimize

SpecT == InitT /\ [][NextT]_vars

(***************************************************************************)
(* The worker pool of cmd/backfill-descriptions: one producer scans the    *)
(* rows of the query and sends them on workChan, the workers receive from  *)
(* it and run processRecord, each taking a token from the shared bucket    *)
(* before the retry loop; main waits for the workers.                      *)
(*                                                                         *)
(* Tokens are counted in TokenUnit-ths of a token and time in ticks of     *)
(* 1/TicksPerSecond s, the sleep of Wait.  A bucket is built with          *)
(* capacity = refill rate, so one second of elapsed time always fills it:  *)
(* elapsed time beyond a second is not told apart from a second.           *)
(***************************************************************************)
MaxRows == 3
TokenUnit == 20
TicksPerSecond == 10
defaultRateLimit == 2
workersLimit == 10

\* BACKFILL_RATE_LIMIT in token units per second: half a token, and the
\* default.
RateLimits == {TokenUnit \div 2, defaultRateLimit * TokenUnit}

\* The rows of the query: with text to optimize, without text, or one that
\* rows.Scan fails on.
RowKinds == {"text", "empty", "scanerr"}

RECURSIVE RowLists(_)
RowLists(n) ==
    IF n = 0 THEN {<<>>}
    ELSE {<<>>} \cup {<<k>> \o l : k \in RowKinds, l \in RowLists(n - 1)}

\* The -workers flag as main clamps it.
ClampWorkers(n) == IF n < 1 THEN 1 ELSE IF n > workersLimit THEN workersLimit ELSE n

Min(a, b) == IF a < b THEN a ELSE b

NewTokenBucket(capacity, refillRate) ==
    [tokens |-> capacity, capacity |-> capacity, refillRate |-> refillRate, elapsed |-> 0]

\* The bucket after the refill of Take: the tokens of the elapsed time are
\* added up to the capacity, and lastRefill becomes now.
Refilled(tb) ==
    [tb EXCEPT !.tokens = Min(tb.capacity,
                              tb.tokens + (tb.elapsed * tb.refillRate) \div TicksPerSecond),
               !.elapsed = 0]

\* A variant that grants a token whatever the bucket holds.
TakeUnchecked(tb) ==
    [ok |-> TRUE, tb |-> [Refilled(tb) EXCEPT !.tokens = @ - TokenUnit]]

\* Take: whether a token was granted, and the bucket after it.
Take(tb) ==
    IF Refilled(tb).tokens >= TokenUnit
    THEN [ok |-> TRUE, tb |-> [Refilled(tb) EXCEPT !.tokens = @ - TokenUnit]]
    ELSE [ok |-> FALSE, tb |-> Refilled(tb)]

NoStats == [processed |-> 0, updated |-> 0, skipped |-> 0, errors |-> 0]

\* main up to the start of the goroutines: the flags are read, the bucket
\* and the channels are made.  granted, started, written, scanErrors and
\* handled observe the run; the program does not keep them.
NewPool(kinds, workers, dryRun) ==
    [pc |-> "start", producer |-> "off", sending |-> 0, closed |-> FALSE,
     kinds |-> kinds, workers |-> ClampWorkers(workers), dryRun |-> dryRun,
     wg |-> 0, doneChan |-> 0, exit |-> 0, stats |-> NoStats,
     granted |-> 0, started |-> 0, written |-> 0, scanErrors |-> 0,
     handled |-> [i \in 1..Len(kinds) |-> 0]]

InitW ==
    /\ \E kinds \in RowLists(MaxRows), flag \in 0..MaxWorkers, dryRun \in BOOLEAN :
          /\ pool = NewPool(kinds, flag, dryRun)
          /\ rows = [i \in 1..Len(kinds) |-> i]
    /\ \E rateLimit \in RateLimits : bucket = NewTokenBucket(rateLimit, rateLimit)
    /\ workChan = <<>>
    /\ worker = [w \in Workers |-> IdleWorker]
    /\ opportunity = Nil
    /\ description = Nil
    /\ recordLock = 0
    /\ req = [r \in Requests |-> IdleRequest]
    /\ row0 = Nil
    /\ faults = FALSE
    /\ JobsAtRest
    /\ TextAtRest
    /\ PagerAtRest

Others == <<opportunity, description, dvars, jvars, tvars, pvars>>

\* main starts the workers and the producer, then waits on the WaitGroup.
StartPool ==
    /\ pool.pc = "start"
    /\ pool' = [pool EXCEPT !.pc = "wait", !.producer = "next", !.wg = pool.workers]
    /\ worker' = [w \in Workers |->
                    IF w <= pool.workers THEN [IdleWorker EXCEPT !.pc = "recv"]
                    ELSE IdleWorker]
    /\ UNCHANGED <<rows, workChan, bucket, Others>>

\* The producer: rows.Next and rows.Scan.  A row that cannot be scanned is
\* counted as an error and passed over; after the last row the channel is
\* closed.
ProducerScan ==
    /\ pool.producer = "next"
    /\ IF rows = <<>>
       THEN /\ pool' = [pool EXCEPT !.producer = "done", !.closed = TRUE]
            /\ UNCHANGED rows
       ELSE /\ rows' = Tail(rows)
            /\ pool' = IF pool.kinds[Head(rows)] = "scanerr"
                       THEN [pool EXCEPT !.stats.errors = @ + 1, !.scanErrors = @ + 1]
                       ELSE [pool EXCEPT !.producer = "send", !.sending = Head(rows)]
    /\ UNCHANGED <<workChan, worker, bucket, Others>>

\* workChan <- rec: blocks while the channel holds 2 * workers records.
ProducerSend ==
    /\ pool.producer = "send"
    /\ Len(workChan) < 2 * pool.workers
    /\ workChan' = Append(workChan, pool.sending)
    /\ pool' = [pool EXCEPT !.producer = "next", !.sending = 0]
    /\ UNCHANGED <<rows, worker, bucket, Others>>

\* for rec := range workChan, and processRecord up to the rate limiter: the
\* record is counted as processed, and as skipped when it has no text.
WorkerReceive(w) ==
    /\ worker[w].pc = "recv"
    /\ workChan # <<>>
    /\ workChan' = Tail(workChan)
    /\ LET rec == Head(workChan)
           counted == [pool EXCEPT !.stats.processed = @ + 1, !.handled[rec] = @ + 1]
       IN  IF pool.kinds[rec] = "empty"
           THEN /\ pool' = [counted EXCEPT !.stats.skipped = @ + 1]
                /\ UNCHANGED worker
           ELSE /\ pool' = counted
                /\ worker' = [worker EXCEPT ![w] = [pc |-> "wait", rec |-> rec, attempt |-> 0]]
    /\ UNCHANGED <<rows, bucket, Others>>

\* The range loop ends on the closed and drained channel: the worker sends
\* on doneChan, which has room for every worker, and wg.Done runs.
WorkerExit(w) ==
    /\ worker[w].pc = "recv"
    /\ workChan = <<>> /\ pool.closed
    /\ worker' = [worker EXCEPT ![w].pc = "done"]
    /\ pool' = [pool EXCEPT !.doneChan = @ + 1, !.wg = @ - 1]
    /\ UNCHANGED <<rows, workChan, bucket, Others>>

\* One round of tokenBucket.Wait: Take, and with a token the retry loop
\* starts; without one the worker sleeps and takes again.
WorkerTake(w) ==
    /\ worker[w].pc = "wait"
    /\ bucket' = Take(bucket).tb
    /\ IF Take(bucket).ok
       THEN /\ worker' = [worker EXCEPT ![w].pc = "attempt"]
            /\ pool' = [pool EXCEPT !.granted = @ + 1]
       ELSE UNCHANGED <<worker, pool>>
    /\ UNCHANGED <<rows, workChan, Others>>

\* Time passes while a worker is about to take a token.
Tick ==
    /\ \E w \in Workers : worker[w].pc = "wait"
    /\ bucket.elapsed < TicksPerSecond
    /\ bucket' = [bucket EXCEPT !.elapsed = @ + 1]
    /\ UNCHANGED <<rows, workChan, worker, pool, Others>>

\* The end of processRecord without its return after IncrementErrors: a
\* failed record is counted as an error and as updated.
EndRecordFallThrough(p, failed) ==
    LET counted == IF failed THEN [p EXCEPT !.stats.errors = @ + 1] ELSE p
    IN  [counted EXCEPT !.stats.updated = @ + 1,
                        !.written = IF failed \/ p.dryRun THEN @ ELSE @ + 1]

\* The end of processRecord: a record whose last attempt failed is counted
\* as an error, any other as updated; without -dry-run the successful
\* attempt has written the row.
EndRecord(p, failed) ==
    IF failed THEN [p EXCEPT !.stats.errors = @ + 1]
    ELSE [p EXCEPT !.stats.updated = @ + 1,
                   !.written = IF p.dryRun THEN @ ELSE @ + 1]

\* One attempt of processRecordWithRetry and the rest of the loop: nil ends
\* the record as updated, an error is retried or counted.
WorkerAttempt(w) ==
    /\ worker[w].pc = "attempt"
    /\ \E outcome \in {"ok", "retryable", "fatal"} :
          LET begun == [pool EXCEPT !.started = IF worker[w].attempt = 0 THEN @ + 1 ELSE @]
          IN  IF outcome = "ok"
              THEN /\ worker' = [worker EXCEPT ![w] = [IdleWorker EXCEPT !.pc = "recv"]]
                   /\ pool' = EndRecord(begun, FALSE)
              ELSE IF isRetryableError(outcome) /\ worker[w].attempt + 1 < maxRetries
              THEN /\ worker' = [worker EXCEPT ![w].attempt = @ + 1]
                   /\ pool' = begun
              ELSE /\ worker' = [worker EXCEPT ![w] = [IdleWorker EXCEPT !.pc = "recv"]]
                   /\ pool' = EndRecord(begun, TRUE)
    /\ UNCHANGED <<rows, workChan, bucket, Others>>

\* wg.Wait returns: the statistics are logged and the process exits with 1
\* when errors were counted.
PoolDone ==
    /\ pool.pc = "wait"
    /\ pool.wg = 0
    /\ pool' = [pool EXCEPT !.pc = "done", !.exit = IF pool.stats.errors > 0 THEN 1 ELSE 0]
    /\ UNCHANGED <<rows, workChan, worker, bucket, Others>>

NextW ==
    \/ StartPool
    \/ ProducerScan
    \/ ProducerSend
    \/ Tick
    \/ PoolDone
    \/ \E w \in Workers :
          \/ WorkerReceive(w)
          \/ WorkerExit(w)
          \/ WorkerTake(w)
          \/ WorkerAttempt(w)

SpecW == InitW /\ [][NextW]_vars

\* The goroutines are scheduled fairly and time goes on.
LiveW ==
    /\ SpecW
    /\ WF_vars(StartPool) /\ WF_vars(ProducerScan) /\ WF_vars(ProducerSend)
    /\ WF_vars(Tick) /\ WF_vars(PoolDone)
    /\ \A w \in Workers :
          /\ WF_vars(WorkerReceive(w)) /\ WF_vars(WorkerExit(w))
          /\ WF_vars(WorkerTake(w)) /\ WF_vars(WorkerAttempt(w))

(***************************************************************************)
(* IngestionService.IngestOpportunities: the pages of one run.  The        *)
(* upstream reports a total with every page; the records of a page are     *)
(* those of the reported total that lie in it.                             *)
(***************************************************************************)
MaxPages == 3
limit == 100

\* The totals the upstream reports: at, just above and just below the page
\* boundaries.
Totals == {p * limit + d : p \in 0..MaxPages - 1, d \in {0, 1, limit - 1}}

Max(a, b) == IF a > b THEN a ELSE b

\* The number of records of the page at offset when total are reported.
PageRecords(offset, total) == Min(limit, Max(0, total - offset))

\* A variant that goes on when the page ends exactly at the total.
LastPageStrict(offset, total) == offset + limit > total

\* The test that ends the loop.
LastPage(offset, total) == offset + limit >= total

\* stats, limit and offset before the loop.  pages, the requests made, and
\* persisted, the records ProcessOpportunity stored, observe the run.
NewPager ==
    [pc |-> "page", offset |-> 0, pages |-> <<>>, err |-> FALSE, persisted |-> 0,
     stats |-> [total |-> 0, errors |-> 0]]

InitP ==
    /\ pager = NewPager
    /\ opportunity = Nil
    /\ description = Nil
    /\ recordLock = 0
    /\ req = [r \in Requests |-> IdleRequest]
    /\ row0 = Nil
    /\ faults = FALSE
    /\ JobsAtRest
    /\ TextAtRest
    /\ PoolAtRest

\* One turn of the loop: the page at offset is requested; a failed request
\* returns the statistics with an error; else its records are processed, of
\* which failed ones are counted and passed over, and the loop ends or
\* moves the offset on.
IngestPage ==
    /\ pager.pc = "page"
    /\ \E ok \in BOOLEAN, total \in Totals, failed \in 0..1 :
          LET asked == [pager EXCEPT !.pages = Append(@, [offset |-> pager.offset,
                                                          total |-> IF ok THEN total ELSE -1])]
              n == PageRecords(pager.offset, total)
              errors == Min(failed, n)
          IN  pager' =
                 IF ~ok THEN [asked EXCEPT !.pc = "returned", !.err = TRUE]
                 ELSE [asked EXCEPT
                          !.stats.total = @ + n,
                          !.stats.errors = @ + errors,
                          !.persisted = @ + n - errors,
                          !.pc = IF LastPage(pager.offset, total) THEN "returned" ELSE "page",
                          !.offset = IF LastPage(pager.offset, total) THEN @ ELSE @ + limit]
    /\ UNCHANGED <<opportunity, description, dvars, jvars, tvars, wvars>>

NextP == IngestPage

SpecP == InitP /\ [][NextP]_vars

\* The call runs on until it returns.
LiveP == SpecP /\ WF_vars(NextP)

(***************************************************************************)
(* The excerpt construction of OptimizeForAI applied to given lists of     *)
(* selected paragraphs, up to MaxSelected paragraphs of lengths around the *)
(* excerpt target.                                                         *)
(***************************************************************************)
MaxSelected == 3

ParagraphLengths ==
    {1, 2, 3, 4} \cup {excerptTarget + d : d \in -5..1}

\* A paragraph of n characters.
Paragraph(n) == [i \in 1..n |-> "x"]

RECURSIVE ParagraphLists(_)
ParagraphLists(n) ==
    IF n = 0 THEN {<<>>}
    ELSE {<<>>} \cup {<<Paragraph(k)>> \o l : k \in ParagraphLengths, l \in ParagraphLists(n - 1)}

InitE ==
    /\ \E paras \in ParagraphLists(MaxSelected) : result = [op |-> "selected", paras |-> paras]
    /\ text = <<>>
    /\ opportunity = Nil
    /\ description = Nil
    /\ recordLock = 0
    /\ req = [r \in Requests |-> IdleRequest]
    /\ row0 = Nil
    /\ faults = FALSE
    /\ JobsAtRest
    /\ PoolAtRest
    /\ PagerAtRest

\* The excerpt e was built from the selected paragraphs.
ExcerptBuilt(selectedParagraphs, e) ==
    /\ text' = e.text
    /\ result' = [op |-> "excerpt", from |-> selectedParagraphs, panic |-> e.panic]

ApplyExcerpt ==
    /\ result.op = "selected"
    /\ ExcerptBuilt(result.paras, ExcerptLoop(result.paras, <<>>))
    /\ UNCHANGED <<opportunity, description, dvars, jvars, wvars, pvars>>

NextE == ApplyExcerpt

SpecE == InitE /\ [][NextE]_vars

(***************************************************************************)
(* Properties of the on-demand description requests (SpecD).               *)
(***************************************************************************)
UrlSourced == sourceType = "url"

Fetchers == {r \in Requests : req[r].fetched}

\* C1: concurrent refresh=false requests for one url-sourced opportunity
\* without a cached description, an upstream that answers successfully and a
\* store that accepts every statement: exactly one upstream fetch is issued
\* in total.
C1_ExactlyOneFetch ==
    (/\ UrlSourced
     /\ row0 = Nil
     /\ ~faults
     /\ \A r \in Requests : ~req[r].refresh /\ req[r].upstream \in {"", "fetched"})
    => Cardinality(Fetchers) <= 1

\* A step of request r that leaves the sleep-and-recheck position.
BusyStep(r) == req[r].pc = "busy" /\ req'[r] # req[r]

IsFetched(row) == row # Nil /\ row[1].fetchStatus = "fetched"

Complete(row) ==
    /\ row.rawText # Nil /\ row.rawText[1] # <<>>
    /\ row.rawTextNormalized # Nil /\ row.rawTextNormalized[1] # <<>>
    /\ row.textNormalized # Nil /\ row.textNormalized[1] # <<>>
    /\ row.normalizationVersion # Nil

\* C6: every row the requests have written with fetchStatus=fetched has
\* non-empty rawText, rawTextNormalized and textNormalized and a set
\* normalizationVersion.
C6_FetchedRowsComplete ==
    (IsFetched(description) /\ description # row0) => Complete(description[1])

\* C8: every refresh=true request for a url-sourced opportunity that answers
\* with a description result has issued an upstream fetch in that request.
C8_RefreshAlwaysFetches ==
    \A r \in Requests :
       (UrlSourced /\ req[r].refresh /\ req[r].code = 200) => req[r].fetched

\* C9: a refresh=false request that reads a stored not_found row of a
\* url-sourced description issues no upstream fetch, and an upstream answer
\* with transport status 404 is stored as not_found, not as error.
C9_NotFoundIsTerminal ==
    \A r \in Requests :
       /\ (UrlSourced /\ req[r].read = "not_found" /\ ~req[r].refresh) => ~req[r].fetched
       /\ (req[r].pc = "store" /\ req[r].desc[1].httpStatus = Some(StatusNotFound))
             => req[r].desc[1].fetchStatus = "not_found"

Stale(row) ==
    row.normalizationVersion = Nil \/ row.normalizationVersion[1] # NORMALIZATION_VERSION

\* A row at the current version with nothing to heal: no raw text, or raw
\* text that unwrapping leaves alone and no markup in any tier.
NeedsNoHeal(row) ==
    /\ ~Stale(row)
    /\ \/ row.rawText = Nil
       \/ /\ UnwrapDescriptionText(row.rawText[1]) = row.rawText[1]
          /\ ~HasHTML(row.rawText[1])
          /\ row.rawTextNormalized = Nil \/ ~HasHTML(row.rawTextNormalized[1])
          /\ row.textNormalized = Nil \/ ~HasHTML(row.textNormalized[1])

\* The step of request r on the cached branch.
CachedStep(r) == req[r].pc = "cached" /\ req'[r] # req[r]

C11_StoreFailureIsInternalError ==
    \A r \in Requests :
       (req[r].pc \in {"unlock", "done"} /\ req[r].wrote = "failed") => req[r].code = 500

\* The list status and the status of the answer name the same condition.
SameStatus(listStatus, answerStatus) ==
    IF listStatus = "ready" THEN answerStatus = "fetched" ELSE answerStatus = listStatus

\* C12: an empty or whitespace-only description is classified none, a
\* request for such an opportunity is answered with status "none", and for
\* every stored row the status buildDescriptionResponse reports agrees with
\* the status GetDescriptionStatus computes, up to ready/fetched.
C12_NoneStatusAgrees ==
    /\ \A d \in {<<>>, <<" ">>, <<"\t", "\n">>} : DetectSource(d).sourceType = "none"
    /\ \A r \in Requests :
          (sourceType = "none" /\ req[r].pc = "done" /\ req[r].code = 200)
             => req[r].status = "none"
    /\ description # Nil =>
          SameStatus(GetDescriptionStatus(description), ResponseStatus(description[1]))

\* C19: an upstream answer whose status is not 2xx and which is not
\* classified not-found gives a fetch error carrying the status code,
\* whatever its body holds, so that the row built from it has fetchStatus
\* "error"; and no stored row is "fetched" with a status outside 2xx.
C19_Non2xxIsFetchError ==
    /\ \A r \in Requests :
          (req[r].pc = "store" /\ req[r].desc[1].httpStatus[1] # 0
              /\ req[r].desc[1].httpStatus[1] \notin 200 .. 299
              /\ req[r].desc[1].fetchStatus # "not_found")
             => /\ req[r].desc[1].fetchStatus = "error"
                /\ req[r].desc[1].lastError
                      = Some(StatusError(req[r].desc[1].httpStatus[1]))
    /\ (description # Nil /\ description[1].fetchStatus = "fetched"
           /\ description[1].httpStatus # Nil)
          => description[1].httpStatus[1] \in 200 .. 299

\* The cached content of a row: the text tiers, the content hash, the raw
\* response and the AI fields.
CachedContent(row) ==
    <<row.rawText, row.rawTextNormalized, row.textNormalized, row.contentHash,
      row.rawJsonResponse, row.aiInputText>>

\* C28: a request whose upstream fetch failed (transport error, unreadable
\* or oversized body, error status) leaves the text tiers, the content hash,
\* the raw response and the AI fields of a cached fetched row as they are.
C28_FailedFetchKeepsCache ==
    [][\A r \in Requests :
          (req[r].pc = "store" /\ req[r].upstream = "error" /\ req'[r] # req[r]
              /\ description # Nil /\ description[1].fetchStatus = "fetched")
             => /\ description' # Nil
                /\ CachedContent(description'[1]) = CachedContent(description[1])]_vars

(***************************************************************************)
(* Properties of ingestion and of the batch jobs (SpecJ).                  *)
(***************************************************************************)

\* A step of job j in which ProcessOpportunity ran and returned no error.
ProcessedOk(j) ==
    /\ job[j].pc = "process"
    /\ job'[j].stats.total = job[j].stats.total + 1
    /\ job'[j].stats.errors = job[j].stats.errors

IngestTablesUnchanged ==
    /\ opportunity' = opportunity
    /\ opportunity_raw' = opportunity_raw
    /\ opportunity_version' = opportunity_version
    /\ description' = description

\* C2: ProcessOpportunity on a record that is not stored yields "new"; on a
\* record identical to the stored one it yields "skipped" and leaves the
\* opportunity, opportunity_raw, opportunity_version and description tables
\* as they are.
C2_IdenticalRecordSkipped ==
    [][\A j \in Jobs :
          ProcessedOk(j) =>
             LET opp == job'[j].last[1]
             IN  /\ opportunity = Nil =>
                       /\ job'[j].stats.new = job[j].stats.new + 1
                       /\ opportunity' = Some(OpportunityRow(opp, computeContentHash(opp)))
                 /\ opportunity = Some(OpportunityRow(opp, computeContentHash(opp))) =>
                       /\ job'[j].stats.skipped = job[j].stats.skipped + 1
                       /\ IngestTablesUnchanged
                 /\ job'[j].stats.skipped = job[j].stats.skipped + 1 => IngestTablesUnchanged]_vars

\* One run stored a record as new and skipped the identical record after it.
C2_Witness ==
    \E j \in Jobs :
       /\ job[j].pc = "process" /\ job[j].last # Nil
       /\ job[j].stats.total = 2 /\ job[j].stats.new = 1 /\ job[j].stats.skipped = 1
       /\ opportunity_raw = job[j].last
       /\ opportunity_version = <<>>

\* C3: re-ingesting a stored opportunity with a hashed field changed yields
\* "updated", appends exactly one version row (the rows before it stay as
\* they are) and stores the new hash; a change outside the hashed subset
\* only yields "skipped".  No step removes or alters a version row.
C3_HashedChangeUpdates ==
    [][/\ Len(opportunity_version') >= Len(opportunity_version)
       /\ SubSeq(opportunity_version', 1, Len(opportunity_version)) = opportunity_version
       /\ \A j \in Jobs :
             (ProcessedOk(j) /\ opportunity # Nil) =>
                LET opp == job'[j].last[1]
                    hash == computeContentHash(opp)
                IN  /\ (opp.title # opportunity[1].title
                        \/ opp.description # opportunity[1].description) =>
                          /\ job'[j].stats.updated = job[j].stats.updated + 1
                          /\ opportunity_version' =
                                Append(opportunity_version,
                                       [contentHash |-> hash, rawSnapshot |-> opp])
                          /\ opportunity'[1].contentHash = hash
                    /\ (opp.title = opportunity[1].title
                        /\ opp.description = opportunity[1].description) =>
                          /\ job'[j].stats.skipped = job[j].stats.skipped + 1
                          /\ opportunity_version' = opportunity_version]_vars

\* One run updated the stored opportunity, with one version row, and then
\* skipped a record that differs from the stored one in the solicitation
\* number only.
C3_Witness ==
    \E j \in Jobs :
       /\ job[j].pc = "process" /\ job[j].last # Nil
       /\ job[j].stats.updated = 1 /\ job[j].stats.skipped = 1
       /\ Len(opportunity_version) = 1
       /\ opportunity_raw # Nil
       /\ opportunity_raw[1].title = job[j].last[1].title
       /\ opportunity_raw[1].solicitationNumber # job[j].last[1].solicitationNumber

\* C4: a batch job that acquired its advisory lock has released it when its
\* execution has ended.
C4_LockReleasedBeforeExit ==
    \A j \in Jobs : job[j].pc = "exited" => \A k \in LockKeys : fleetLock[k] # j

WorkPositions == {"search", "readfile", "process", "count", "query", "record", "get", "upsert"}

Working(jb) == jb.pc \in WorkPositions

\* C7: a batch job that finds its fleet-wide lock held processes no record,
\* writes nothing and exits with code 0; no two jobs with the same lock key
\* are in their working phase together; the backfill key differs from the
\* ingestion key, which ingest and ingest-file share.
C7_FleetLockExcludes ==
    [][/\ backfillLockKey # ingestionLockKey
       /\ LockKey("ingest") = ingestionLockKey
       /\ LockKey("ingest-file") = ingestionLockKey
       /\ LockKey("backfill") = backfillLockKey
       /\ \A j1, j2 \in Jobs :
             (j1 # j2 /\ Working(job'[j1]) /\ Working(job'[j2]))
                => LockKey(job'[j1].kind) # LockKey(job'[j2].kind)
       /\ \A j \in Jobs :
             (job'[j] # job[j] /\ job'[j].busy) =>
                /\ job'[j].pc \in {"exited", "gone"}
                /\ job'[j].exit = 0
                /\ job'[j].stats = IdleJob.stats
                /\ IngestTablesUnchanged
                /\ job[j].pc = "idle" => fleetLock' = fleetLock]_vars

\* A job found its lock held and exited with 0 while the holder, a job with
\* the same key, is at work.
C7_Witness ==
    \E j1, j2 \in Jobs :
       /\ j1 # j2
       /\ job[j1].busy /\ job[j1].pc = "exited" /\ job[j1].exit = 0
       /\ Working(job[j2])
       /\ LockKey(job[j1].kind) = LockKey(job[j2].kind)
       /\ fleetLock[LockKey(job[j2].kind)] = j2

\* C18: no step of a backfill run in dry-run mode changes the description
\* table or reaches the upsert.
C18_DryRunWritesNothing ==
    [][\A j \in Jobs :
          (job[j].kind = "backfill" /\ job[j].dryRun /\ job'[j] # job[j]) =>
             /\ description' = description
             /\ job'[j].pc # "upsert"
             /\ job'[j].desc = Nil]_vars

\* A dry run went through its record, counted it as updated and left the row
\* without AI fields.
C18_Witness ==
    \E j \in Jobs :
       /\ job[j].kind = "backfill" /\ job[j].dryRun
       /\ job[j].pc = "exited" /\ job[j].stats.updated = 1
       /\ description # Nil /\ description[1].aiInputText = Nil

\* C20: a record of the backfill is attempted at most maxRetries times; a
\* further attempt follows only an error that isRetryableError classifies
\* retryable, after a sleep of initialBackoff doubled once per earlier
\* retry; an error that is not retryable ends the record at once, a success
\* ends it at once, and the record is counted as an error exactly when its
\* last attempt failed.
C20_BoundedRetriesWithBackoff ==
    [][\A j \in Jobs :
          (job[j].kind = "backfill" /\ job[j].pc \in {"get", "upsert"}
              /\ job'[j] # job[j]) =>
             /\ job[j].attempt + 1 <= maxRetries
             /\ job'[j].attempt # job[j].attempt /\ job'[j].pc # "exited" =>
                   /\ job'[j].pc = "get"
                   /\ job'[j].attempt = job[j].attempt + 1
                   /\ job'[j].attempt + 1 <= maxRetries
                   /\ isRetryableError(job'[j].err)
                   /\ job'[j].slept
                         = Append(job[j].slept, initialBackoff * 2 ^ job[j].attempt)
             /\ job'[j].err # job[j].err /\ job'[j].err = "fatal" =>
                   /\ job'[j].pc = "exited"
                   /\ job'[j].stats.errors = job[j].stats.errors + 1
             /\ job'[j].stats.updated # job[j].stats.updated =>
                   /\ job'[j].pc = "exited" /\ job'[j].err = ""
                   /\ job'[j].stats.errors = job[j].stats.errors
             /\ job'[j].stats.errors # job[j].stats.errors =>
                   /\ job'[j].pc = "exited" /\ job'[j].err # ""
                   /\ job'[j].stats.updated = job[j].stats.updated
                   /\ job'[j].err = "fatal" \/ job[j].attempt + 1 = maxRetries
             /\ job'[j].pc = "exited" =>
                   job'[j].stats.updated + job'[j].stats.errors
                      = job[j].stats.updated + job[j].stats.errors + 1]_vars

\* The third attempt of a record is under way, after two retryable errors
\* and sleeps of one and two seconds.
C20_Witness ==
    \E j \in Jobs :
       /\ job[j].kind = "backfill" /\ job[j].pc = "upsert"
       /\ job[j].attempt + 1 = maxRetries
       /\ job[j].err = "retryable"
       /\ job[j].slept = <<initialBackoff, 2 * initialBackoff>>

\* C27: after any sequence of ProcessOpportunity calls, calls in which a
\* store statement of the update path fails included, every
\* opportunity_version row was written by exactly one call that returned
\* "updated", and whenever a version row exists the content hash of the
\* opportunity row is the hash of the latest version row.
C27_VersionsMatchUpdates ==
    /\ [](opportunity_version # <<>> =>
             /\ opportunity # Nil
             /\ opportunity[1].contentHash
                   = opportunity_version[Len(opportunity_version)].contentHash)
    /\ [][opportunity_version' # opportunity_version =>
             /\ Len(opportunity_version') = Len(opportunity_version) + 1
             /\ \E j \in Jobs :
                   job'[j].stats.updated = job[j].stats.updated + 1]_vars

\* The hash half of C27 after calls in which no statement failed.
C27_HashMatchesWithoutFaults ==
    [][(opportunity_version # <<>> =>
           opportunity[1].contentHash
              = opportunity_version[Len(opportunity_version)].contentHash)
       /\ (\E j \in Jobs : job'[j].stats.errors = job[j].stats.errors
                              /\ job'[j].stats.total = job[j].stats.total + 1)
       => (opportunity_version' # <<>> =>
              opportunity'[1].contentHash
                 = opportunity_version'[Len(opportunity_version')].contentHash)]_vars

(***************************************************************************)
(* Properties of the backfill beside the on-demand requests (SpecB).       *)
(***************************************************************************)

\* The fetch state, the text tiers and the normalization version of a row.
FetchedContent(row) ==
    <<row.fetchStatus, row.rawText, row.rawTextNormalized, row.textNormalized,
      row.normalizationVersion>>

\* C29: the write of the backfill leaves the fetch state, the text tiers
\* and the normalization version as they are in the row at the time of the
\* write, whatever an on-demand request stored since the backfill read the
\* row, and the AI input it stores is computed from the rawTextNormalized
\* the row holds after the write.
C29_BackfillKeepsNewerRow ==
    [][\A j \in Jobs :
          (job[j].kind = "backfill" /\ job[j].pc = "upsert" /\ job'[j] # job[j]
              /\ description' # description /\ description # Nil)
             => /\ FetchedContent(description'[1]) = FetchedContent(description[1])
                /\ description'[1].aiInputText
                      = Some(OptimizeForAI(description'[1].rawTextNormalized[1]))]_vars

(***************************************************************************)
(* Properties of the text functions (SpecT).                               *)
(***************************************************************************)

\* C13: UnwrapDescriptionText returns a string for every input, and for a
\* text that carries no wrapper (plain text, the empty string, blank text,
\* an object without a usable description) it returns the input itself,
\* character for character, not a trimmed copy.
C13_UnwrapTotalAndUnchanged ==
    result.op = "unwrap" =>
       /\ DOMAIN text = 1..Len(text)
       /\ result.from \in PlainTexts => text = result.from

\* The padded plain text went through the unwrapper.
C13_Witness ==
    /\ result.op = "unwrap"
    /\ result.from \in PlainTexts
    /\ TrimSpace(result.from) # result.from /\ TrimSpace(result.from) # <<>>

\* C14 as stated: for a text under any number of wrappers, unwrapping the
\* unwrapped text changes nothing.
C14_UnwrapIdempotent ==
    result.op = "unwrap" => UnwrapDescriptionText(text) = text

\* C14, for texts under at most maxUnwrapRecursion wrappers: unwrapping the
\* unwrapped text changes nothing.
C14_UnwrapIdempotentWithinDepth ==
    (result.op = "unwrap" /\ result.from \in WrappedUpTo(maxUnwrapRecursion))
       => UnwrapDescriptionText(text) = text

\* A text under exactly maxUnwrapRecursion wrappers was unwrapped to a plain
\* text.
C14_Witness ==
    /\ result.op = "unwrap"
    /\ result.from \in Wrapped(maxUnwrapRecursion)
    /\ text \in PlainTexts /\ text # result.from

\* The plain texts that are not blank: the target texts of the wrappers.
TargetTexts == {p \in PlainTexts : TrimSpace(p) # <<>>}

\* The target text p under exactly n wrappers.
RECURSIVE WrapsOf(_, _)
WrapsOf(p, n) ==
    IF n = 0 THEN {p}
    ELSE {WrapObject(t) : t \in WrapsOf(p, n - 1)} \cup {WrapString(t) : t \in WrapsOf(p, n - 1)}

\* Every wrapped target text with its target and the number of its wrappers.
WrapsTable ==
    UNION {UNION {{[p |-> p, n |-> n, t |-> t] : t \in WrapsOf(p, n)} : n \in 0..MaxWrap}
              : p \in TargetTexts}

BlankRunsAtMost(lines, n) ==
    \A i \in 1..(Len(lines) - n) : \E j \in i..(i + n) : lines[j] # <<>>

\* C15: Normalize applied to its own output changes nothing, and its output
\* has no more than 2 consecutive blank lines.
C15_NormalizeIdempotent ==
    result.op = "normalize" =>
        /\ Normalize(text) = text
        /\ BlankRunsAtMost(SplitLines(text), MaxBlankLines)

\* The members of a payload that is a JSON object, as the strict decoder
\* reads them.
TopLevel(payload) == JsonParse(payload).v.m

HasTopLevelDescription(m) ==
    HasKey(m, DescriptionName) /\ Lookup(m, DescriptionName).k = "str"

\* C16: a payload with a top-level description key of string value yields that
\* value, whatever precedes or follows the key, and nothing else is ever
\* returned as a match.
C16_TopLevelDescriptionOnly ==
    result.op = "extract" =>
        /\ HasTopLevelDescription(TopLevel(result.from))
              => (result.ok /\ text = Lookup(TopLevel(result.from), DescriptionName).s)
        /\ result.ok => HasTopLevelDescription(TopLevel(result.from))

\* The scored paragraphs of a text in document order, and the same ranked by
\* descending score with ties in document order.
DocumentParagraphs(rawPostParse) ==
    ScoreParagraphs(BuildParagraphs(CleanedLines(SplitLines(rawPostParse), FALSE), <<>>))

RECURSIVE RankedFrom(_, _)
RankedFrom(doc, score) ==
    IF \A i \in 1..Len(doc) : doc[i].score > score THEN <<>>
    ELSE SelectSeq(doc, LAMBDA p : p.score = score) \o RankedFrom(doc, score - 1)

RankedTexts(doc) ==
    [i \in 1..Len(doc) |-> RankedFrom(doc, 2 * Cardinality(PositiveKeywords))[i].text]

\* C17: the paragraphs of the AI input are a prefix of the paragraphs ranked
\* by descending score (ties in document order), each of them has a positive
\* score, and an empty text yields empty outputs without an error.
C17_SelectsPositivePrefix ==
    result.op = "optimize" =>
        /\ Len(result.out.selected) <= Len(DocumentParagraphs(result.from))
        /\ result.out.selected
              = SubSeq(RankedTexts(DocumentParagraphs(result.from)), 1, Len(result.out.selected))
        /\ \A i \in 1..Len(result.out.selected) : scoreParagraph(result.out.selected[i]) > 0
        /\ result.from # <<>> =>
              text = HeaderText(result.out.keyRequirements)
                        \o Join(result.out.selected, <<"\n", "\n">>)
        /\ result.from = <<>> =>
              /\ text = <<>> /\ result.out.excerptText = <<>>
              /\ result.out.keyRequirements = <<>>
              /\ result.out.pocEmailPrimary = <<>> /\ result.out.err = "none"

\* Two paragraphs of equal positive score were selected from a text whose
\* first paragraph has no positive score and was left out.
C17_Witness ==
    /\ result.op = "optimize"
    /\ Len(result.out.selected) >= 2
    /\ result.out.scored[1].score = result.out.scored[2].score
    /\ DocumentParagraphs(result.from)[1].score <= 0

\* C25: for a non-empty input and every configured maxAIChars and
\* maxAIParagraphs, the AI input text holds at most maxAIParagraphs
\* paragraphs and, header and separators included, at most maxAIChars
\* characters.
C25_AiInputWithinLimits ==
    (result.op = "optimize" /\ result.from # <<>>) =>
       /\ Len(result.out.selected) <= result.maxParas
       /\ Len(result.out.aiInputText) <= result.maxChars

\* The paragraph half of C25, and the character budget of the paragraphs
\* after the header.
C25_ParagraphsWithinLimits ==
    (result.op = "optimize" /\ result.from # <<>>) =>
       /\ Len(result.out.selected) <= result.maxParas
       /\ result.out.selected # <<>> =>
             Len(result.out.aiInputText) <= result.maxChars

(***************************************************************************)
(* Properties of the excerpt construction (SpecE).                         *)
(***************************************************************************)

\* The excerpt t consists of the first k paragraphs, each written whole.
WholeParagraphs(t, paras, k) == t = Join(SubSeq(paras, 1, k), <<"\n", "\n">>)

\* The excerpt t consists of the first k paragraphs, a beginning of the next
\* one and "...", and fills the target exactly.
CutParagraph(t, paras, k) ==
    /\ k < Len(paras)
    /\ Len(t) = excerptTarget
    /\ \E m \in 0..Len(paras[k + 1]) :
          t = Separated(Join(SubSeq(paras, 1, k), <<"\n", "\n">>))
                 \o SubSeq(paras[k + 1], 1, m) \o <<".", ".", ".">>

\* The excerpt is made of the paragraphs in selection order: all of them,
\* or those before the target was reached, or those that fit and the cut
\* beginning of the first that did not.
ExcerptShape(t, paras) ==
    \/ WholeParagraphs(t, paras, Len(paras))
    \/ \E k \in 0..Len(paras) - 1 :
          \/ WholeParagraphs(t, paras, k) /\ Len(t) >= excerptTarget
          \/ CutParagraph(t, paras, k)

\* C26: for every list of selected paragraphs the excerpt construction
\* completes without a run-time fault and gives at most excerptTarget
\* characters: the paragraphs in selection order with a blank line between
\* them, the first that does not fit cut to the remaining room with "..."
\* at its end, and nothing after it.
C26_ExcerptWithinTarget ==
    result.op = "excerpt" =>
       /\ ~result.panic
       /\ Len(text) <= excerptTarget
       /\ ExcerptShape(text, result.from)

\* The same for the lists on which the construction completes.
C26_ExcerptWhenCompleted ==
    (result.op = "excerpt" /\ ~result.panic) =>
       /\ Len(text) <= excerptTarget
       /\ ExcerptShape(text, result.from)

(***************************************************************************)
(* Properties of the worker pool of the backfill (SpecW).                  *)
(***************************************************************************)

\* The workers that hold a token and have not yet made their first attempt.
HoldingToken == {w \in Workers : worker[w].pc = "attempt" /\ worker[w].attempt = 0}

\* C21: a worker starts the per-record operation of a record only with a
\* token taken from the shared bucket; Take grants one only when the refilled
\* bucket holds a whole token and removes exactly that token, the bucket
\* stays within 0..capacity and gains tokens only by the refill, so the
\* operations started never exceed the tokens granted.
C21_TokenBeforeOperation ==
    /\ [](/\ pool.pc # "off" =>
               /\ bucket.tokens \in 0..bucket.capacity
               /\ pool.started <= pool.granted
               /\ pool.granted = pool.started + Cardinality(HoldingToken))
    /\ [][pool.pc # "off" =>
             /\ pool'.started # pool.started =>
                   /\ pool'.started = pool.started + 1
                   /\ pool'.granted = pool.granted
                   /\ pool.started < pool.granted
             /\ pool'.granted # pool.granted =>
                   /\ pool'.granted = pool.granted + 1
                   /\ Refilled(bucket).tokens >= TokenUnit
                   /\ bucket'.tokens = Refilled(bucket).tokens - TokenUnit
             /\ pool'.granted = pool.granted =>
                   bucket'.tokens \in {bucket.tokens, Refilled(bucket).tokens}]_vars

\* More operations have started than the bucket held tokens at first: the
\* last of them was granted from the refill.
C21_Witness ==
    /\ pool.pc # "off"
    /\ bucket.capacity >= TokenUnit
    /\ pool.started * TokenUnit > bucket.capacity
    /\ pool.started = pool.granted

\* The records the producer has put on the work queue.
Sent ==
    {i \in 1..Len(pool.kinds) :
        /\ pool.kinds[i] # "scanerr"
        /\ \A k \in 1..Len(rows) : rows[k] # i
        /\ pool.sending # i}

\* C22: with any worker count, every record put on the work queue is
\* processed by exactly one worker, the run reports completion only after
\* the producer has closed the queue and all workers have drained it, and
\* neither a worker nor the producer blocks forever: the run completes.
C22_QueueDrainedAndRunCompletes ==
    /\ [](pool.pc # "off" =>
             /\ pool.workers \in 1..workersLimit
             /\ \A i \in 1..Len(pool.kinds) : pool.handled[i] <= 1
             /\ \A i \in 1..Len(pool.kinds) : pool.handled[i] = 1 => i \in Sent
             /\ pool.pc = "done" =>
                   /\ pool.closed /\ pool.producer = "done" /\ workChan = <<>>
                   /\ \A w \in Workers : worker[w].pc \in {"off", "done"}
                   /\ \A i \in Sent : pool.handled[i] = 1)
    /\ (pool.pc # "off" ~> pool.pc = "done")

\* The same with a bucket that can hold a whole token.
C22_CompletesWithWholeToken ==
    (pool.pc # "off" /\ bucket.capacity >= TokenUnit) ~> pool.pc = "done"

\* The safety half alone.
C22_SafetyHalf ==
    [](pool.pc # "off" =>
             /\ \A i \in 1..Len(pool.kinds) : pool.handled[i] <= 1
             /\ \A i \in 1..Len(pool.kinds) : pool.handled[i] = 1 => i \in Sent
             /\ pool.pc = "done" =>
                   /\ pool.closed /\ pool.producer = "done" /\ workChan = <<>>
                   /\ \A w \in Workers : worker[w].pc \in {"off", "done"}
                   /\ \A i \in Sent : pool.handled[i] = 1)

\* The records the workers took from the channel.
Dequeued == {i \in 1..Len(pool.kinds) : pool.handled[i] > 0}

\* C30: when the run has completed, every record taken from the channel was
\* taken once and counted once as updated, skipped or as an error of a
\* worker, so Processed = Updated + Skipped + (Errors less the scan errors
\* of the producer); the exit code is non-zero exactly when Errors > 0; and
\* without -dry-run Updated is the number of rows written.
C30_StatisticsAtCompletion ==
    pool.pc = "done" =>
       /\ \A i \in Dequeued : pool.handled[i] = 1
       /\ pool.stats.processed = Cardinality(Dequeued)
       /\ pool.stats.processed
             = pool.stats.updated + pool.stats.skipped
                  + (pool.stats.errors - pool.scanErrors)
       /\ (pool.exit # 0) <=> (pool.stats.errors > 0)
       /\ ~pool.dryRun => pool.stats.updated = pool.written

\* A completed run of two workers without -dry-run that updated a record,
\* skipped one and failed on one.
C30_Witness ==
    /\ pool.pc = "done" /\ ~pool.dryRun /\ pool.workers = 2
    /\ pool.stats.updated = 1 /\ pool.stats.skipped = 1
    /\ pool.stats.errors = 1 /\ pool.scanErrors = 0
    /\ pool.exit = 1

(***************************************************************************)
(* Properties of the paging of IngestOpportunities (LiveP).                *)
(***************************************************************************)

\* The pages that hold the record at offset r.
PagesOf(r) ==
    {i \in 1..Len(pager.pages) :
        r \in pager.pages[i].offset .. pager.pages[i].offset + limit - 1}

\* C23: the pages are requested at offsets 0, 100, 200, ... and the run
\* stops after the first page whose offset + 100 reaches the reported
\* total; it returns, having requested at least one page, and every record
\* offset below the total lies in exactly one requested page; a failed page
\* request returns an error and leaves what was processed as it is.
C23_PagesCoverTotalOnce ==
    /\ [](pager.pc # "off" =>
             /\ \A i \in 1..Len(pager.pages) : pager.pages[i].offset = (i - 1) * limit
             /\ \A i \in 1..Len(pager.pages) - 1 :
                   /\ pager.pages[i].total >= 0
                   /\ pager.pages[i].offset + limit < pager.pages[i].total
             /\ pager.pc = "returned" =>
                   /\ Len(pager.pages) >= 1
                   /\ pager.err = (pager.pages[Len(pager.pages)].total < 0)
                   /\ ~pager.err =>
                         LET last == pager.pages[Len(pager.pages)]
                         IN  /\ last.offset + limit >= last.total
                             /\ \A r \in 0..last.total - 1 : Cardinality(PagesOf(r)) = 1)
    /\ [][pager.pc # "off" /\ pager'.err =>
             /\ pager'.pc = "returned"
             /\ pager'.persisted = pager.persisted
             /\ pager'.stats = pager.stats]_vars
    /\ (pager.pc # "off" ~> pager.pc = "returned")

\* A run of three pages returned without error, the last page holding the
\* one record beyond the second.
C23_Witness ==
    /\ pager.pc = "returned" /\ ~pager.err
    /\ Len(pager.pages) = MaxPages
    /\ pager.pages[MaxPages].total = pager.pages[MaxPages].offset + 1
    /\ pager.persisted > limit

====
